---- MODULE Spec2Model ----
(***************************************************************************)
(* A model of package karma (reconquest/karma-go): the persistent context  *)
(* list (type Context), the hierarchical message (type Karma), its tree    *)
(* renderer (Karma.String, formatReasons), Push, Descend and Flatten.      *)
(*                                                                         *)
(* Text is a sequence of one-rune strings; "\n" is the newline rune.  The  *)
(* box-drawing runes of the default glyphs are written with ASCII          *)
(* stand-ins of the same rune count: "L-" for the corner, "+-" for the     *)
(* tee and "|" for the vertical bar.                                       *)
(*                                                                         *)
(* A *Context is an address into heap (0 is nil).  A []Reason is a slice   *)
(* header (arr, len) over a backing array of arrays (arr = 0 is the nil    *)
(* slice); the capacity of a slice is the length of its backing array.     *)
(***************************************************************************)
EXTENDS Integers, Sequences, FiniteSets, TLC

VARIABLES
    heap,               \* Context nodes: heap[a] = [Key, Value, Next]
    arrays,             \* backing arrays of []Reason slices
    BranchDelimiter,    \* karma.go:62
    BranchChainer,      \* karma.go:66
    BranchSplitter,     \* karma.go:69
    BranchIndent,       \* karma.go:72
    branchIndentation,  \* karma.go:76, the cache of getBranchIndentation
    lists,              \* the context lists a caller holds
    procs,              \* two goroutines inside Context.Describe
    ctx,                \* the base *Context two goroutines share
    node,               \* the caller's current Karma
    out                 \* the result of the last String or Flatten call

vars == <<heap, arrays, BranchDelimiter, BranchChainer, BranchSplitter,
          BranchIndent, branchIndentation, lists, procs, ctx, node, out>>

-----------------------------------------------------------------------------
(* Bounds of the model. *)

MaxLists == 4
MaxBase == 2
MaxCtx == 2
MaxArrays == 2
MaxDepth == 2
MaxIndent == 4
MaxPush == 1
MaxFields == 2

(* The nil pointer. *)
nil == 0

NL == "\n"

-----------------------------------------------------------------------------
(* Values a caller may store: strings and ints (interface{}). *)

StringValue(s) == [t |-> "string", s |-> s]
IntValue(n) == [t |-> "int", n |-> n]

Keys == {<<"a">>, <<"b">>}
Values == {StringValue(<<"v">>), StringValue(<<>>), IntValue(8)}
ListValues == {IntValue(0), IntValue(1)}

-----------------------------------------------------------------------------
(* type Context: a node of the linked list. *)

Context(key, value, next) == [Key |-> key, Value |-> value, Next |-> next]

(* copy := *p: a fresh node holding the fields of node p. *)
copyNode_Alias(h, p) == [heap |-> h, ptr |-> p]

copyNode(h, p) == [heap |-> Append(h, h[p]), ptr |-> Len(h) + 1]

(* &Context{KeyValue: KeyValue{Key: key, Value: value}}: a fresh last node. *)
newNode(h, key, value) ==
    [heap |-> Append(h, Context(key, value, nil)), ptr |-> Len(h) + 1]

(* The copy loop of Context.Describe: every node behind pointer is copied  *)
(* into a fresh node and linked from the previous copy.  Returns the heap  *)
(* and the last copy.                                                      *)
RECURSIVE copyChain(_, _)
copyChain(h, pointer) ==
    IF h[pointer].Next = nil
    THEN [heap |-> h, pointer |-> pointer]
    ELSE LET copy == copyNode(h, h[pointer].Next)
             h2 == [copy.heap EXCEPT ![pointer].Next = copy.ptr]
         IN  copyChain(h2, copy.ptr)

(* A broken append: walks the receiver's own nodes to the tail and links   *)
(* the new node there.                                                     *)
RECURSIVE tailOf(_, _)
tailOf(h, p) == IF h[p].Next = nil THEN p ELSE tailOf(h, h[p].Next)

Context_Describe_InPlace(h, context, key, value) ==
    LET last == newNode(h, key, value)
    IN  IF context = nil
        THEN last
        ELSE [heap |-> [last.heap EXCEPT ![tailOf(h, context)].Next = last.ptr],
              ptr |-> context]

(* Context.Describe: the new list as [heap, ptr]. *)
Context_Describe(h, context, key, value) ==
    IF context = nil
    THEN newNode(h, key, value)
    ELSE LET head == copyNode(h, context)
             c == copyChain(head.heap, head.ptr)
             last == newNode(c.heap, key, value)
         IN  [heap |-> [last.heap EXCEPT ![c.pointer].Next = last.ptr],
              ptr |-> head.ptr]

(* Context.Walk, as the sequence of the (key, value) calls it makes. *)
RECURSIVE Walk(_, _)
Walk(h, context) ==
    IF context = nil
    THEN <<>>
    ELSE <<[Key |-> h[context].Key, Value |-> h[context].Value]>>
         \o (IF h[context].Next # nil THEN Walk(h, h[context].Next) ELSE <<>>)

(* Context.GetKeyValues. *)
GetKeyValues(h, context) == Walk(h, context)

RECURSIVE flattenPairs(_)
flattenPairs(kvs) ==
    IF kvs = <<>> THEN <<>>
    ELSE <<[key |-> kvs[1].Key], [value |-> kvs[1].Value]>> \o flattenPairs(Tail(kvs))

(* Context.GetKeyValuePairs: keys at even, values at odd (0-based) indexes. *)
GetKeyValuePairs(h, context) == flattenPairs(Walk(h, context))

(* The nodes reachable from a list. *)
RECURSIVE nodesOf(_, _)
nodesOf(h, context) ==
    IF context = nil THEN {} ELSE {context} \cup nodesOf(h, h[context].Next)

-----------------------------------------------------------------------------
(* Text helpers (package strings, fmt). *)

(* strings.Repeat(" ", n) *)
RECURSIVE Spaces(_)
Spaces(n) == IF n <= 0 THEN <<>> ELSE <<" ">> \o Spaces(n - 1)

(* strings.Replace(s, "\n", "\n"+indentation, -1) *)
RECURSIVE ReplaceNL(_, _)
ReplaceNL(s, indentation) ==
    IF s = <<>> THEN <<>>
    ELSE (IF Head(s) = NL THEN <<NL>> \o indentation ELSE <<Head(s)>>)
         \o ReplaceNL(Tail(s), indentation)

(* strings.TrimRightFunc(s, unicode.IsSpace) *)
RECURSIVE TrimRightSpace(_)
TrimRightSpace(s) ==
    IF s # <<>> /\ s[Len(s)] \in {" ", NL}
    THEN TrimRightSpace(SubSeq(s, 1, Len(s) - 1))
    ELSE s

(* strings.Join(parts, sep) *)
RECURSIVE Join(_, _)
Join(parts, sep) ==
    IF parts = <<>> THEN <<>>
    ELSE IF Len(parts) = 1 THEN parts[1]
    ELSE parts[1] \o sep \o Join(Tail(parts), sep)

Digits == <<"0", "1", "2", "3", "4", "5", "6", "7", "8", "9">>

(* The decimal form of a non-negative int (fmt's %d and %v). *)
RECURSIVE Itoa(_)
Itoa(n) == IF n < 10 THEN <<Digits[n + 1]>> ELSE Itoa(n \div 10) \o <<Digits[(n % 10) + 1]>>

-----------------------------------------------------------------------------
(* type Reason interface{}: nil, a string, an error made by errors.New, an  *)
(* int, a Karma, or a []Reason.                                            *)

NilReason == [t |-> "nil"]
String_(s) == [t |-> "string", s |-> s]
Error_(s) == [t |-> "error", s |-> s]
Slice(arr, len) == [t |-> "slice", arr |-> arr, len |-> len]
NilSlice == Slice(0, 0)

(* type Karma struct { Reason; Message; Context } *)
Karma(message, reason, context) ==
    [t |-> "Karma", Message |-> message, Reason |-> reason, Context |-> context]

(* karma.Format, with the message already formatted by fmt.Sprintf. *)
Format(reason, message) == Karma(message, reason, nil)

(* Context.Format *)
Context_Format(context, reason, message) == Karma(message, reason, context)

(* Context.Reason *)
Context_Reason(context, reason) == Karma(<<>>, reason, context)

(* The elements a slice shows: array cells 1..len. *)
Elems(arrs, slice) ==
    IF slice.arr = 0 THEN <<>> ELSE SubSeq(arrs[slice.arr], 1, slice.len)

Cap(arrs, slice) == IF slice.arr = 0 THEN 0 ELSE Len(arrs[slice.arr])

(* The capacity append gives a slice that has to grow (runtime growslice   *)
(* for small slices).                                                      *)
growCap(cap, needed) == IF needed > cap + cap THEN needed ELSE cap + cap

(* append(slice, reason): in place when the capacity allows, else into a   *)
(* fresh array holding a copy.                                             *)
append(arrs, slice, reason) ==
    IF slice.len < Cap(arrs, slice)
    THEN [arrays |-> [arrs EXCEPT ![slice.arr][slice.len + 1] = reason],
          slice |-> Slice(slice.arr, slice.len + 1)]
    ELSE LET newcap == growCap(Cap(arrs, slice), slice.len + 1)
             cells == Elems(arrs, slice) \o <<reason>>
             array == cells \o [i \in 1..(newcap - Len(cells)) |-> NilReason]
         IN  [arrays |-> Append(arrs, array),
              slice |-> Slice(Len(arrs) + 1, slice.len + 1)]

(* Karma.GetReasons: nil, the slice itself, or a fresh one-element slice. *)
GetReasons(arrs, karma) ==
    IF karma.Reason.t = "nil" THEN [arrays |-> arrs, slice |-> NilSlice]
    ELSE IF karma.Reason.t = "slice" THEN [arrays |-> arrs, slice |-> karma.Reason]
    ELSE [arrays |-> Append(arrs, <<karma.Reason>>), slice |-> Slice(Len(arrs) + 1, 1)]

(* The reasons GetReasons returns, as a sequence. *)
Reasons(arrs, karma) ==
    IF karma.Reason.t = "nil" THEN <<>>
    ELSE IF karma.Reason.t = "slice" THEN Elems(arrs, karma.Reason)
    ELSE <<karma.Reason>>

(* The append loop of Push: nil reasons are skipped. *)
RECURSIVE appendAll(_, _, _)
appendAll(arrs, slice, reasons) ==
    IF reasons = <<>> THEN [arrays |-> arrs, slice |-> slice]
    ELSE IF Head(reasons).t = "nil" THEN appendAll(arrs, slice, Tail(reasons))
    ELSE LET a == append(arrs, slice, Head(reasons))
         IN  appendAll(a.arrays, a.slice, Tail(reasons))

-----------------------------------------------------------------------------
(* Rendering.  A call of String reads heap and the configuration, and it   *)
(* reads and writes the backing arrays and the indentation cache; these    *)
(* two are threaded through the calls as st = [arrays, indentation].       *)

(* strconv.FormatFloat(f, 'g', -1, 64) of a non-negative whole float64,    *)
(* fmt's %v: the shortest digits, in exponent form from 1e+06 on.          *)
RECURSIVE TrimRightZeros(_)
TrimRightZeros(digits) ==
    IF Len(digits) > 1 /\ digits[Len(digits)] = "0"
    THEN TrimRightZeros(SubSeq(digits, 1, Len(digits) - 1))
    ELSE digits

exponentForm(digits, mantissa) ==
    <<Head(mantissa)>> \o (IF Len(mantissa) > 1 THEN <<".">> \o Tail(mantissa) ELSE <<>>)
    \o <<"e", "+">>
    \o (IF Len(digits) - 1 < 10 THEN <<"0">> ELSE <<>>) \o Itoa(Len(digits) - 1)

FormatFloat(n) ==
    IF n < 1000000 THEN Itoa(n) ELSE exponentForm(Itoa(n), TrimRightZeros(Itoa(n)))

(* The runes of a member name of a decoded document. *)
Runes(name) ==
    CASE name = "reason" -> <<"r", "e", "a", "s", "o", "n">>
      [] name = "message" -> <<"m", "e", "s", "s", "a", "g", "e">>
      [] name = "context" -> <<"c", "o", "n", "t", "e", "x", "t">>
      [] name = "key" -> <<"k", "e", "y">>
      [] name = "value" -> <<"v", "a", "l", "u", "e">>
      [] OTHER -> <<name>>

(* fmt.Sprint of a value that is no Karma and no []Reason: a string, an    *)
(* error, an int, nil, and what json.Unmarshal stores into an interface{}  *)
(* (float64, []interface{}, map[string]interface{}: fmt prints a map in    *)
(* key order, the order the decoded documents list their members in).      *)
RECURSIVE Sprint(_)
RECURSIVE sprintAll(_)
RECURSIVE sprintMembers(_)
sprintAll(elems) ==
    IF elems = <<>> THEN <<>>
    ELSE Sprint(Head(elems))
         \o (IF Len(elems) > 1 THEN <<" ">> ELSE <<>>) \o sprintAll(Tail(elems))

sprintMembers(members) ==
    IF members = <<>> THEN <<>>
    ELSE Runes(Head(members).name) \o <<":">> \o Sprint(Head(members).value)
         \o (IF Len(members) > 1 THEN <<" ">> ELSE <<>>) \o sprintMembers(Tail(members))

Sprint(v) ==
    CASE v.t = "string" -> v.s
      [] v.t = "error" -> v.s
      [] v.t = "int" -> Itoa(v.n)
      [] v.t = "nil" -> <<"<", "n", "i", "l", ">">>
      [] v.t = "float64" -> FormatFloat(v.n)
      [] v.t = "[]interface{}" -> <<"[">> \o sprintAll(v.elems) \o <<"]">>
      [] v.t = "map" -> <<"m", "a", "p", "[">> \o sprintMembers(v.members) \o <<"]">>

(* ContextValueFormatter *)
ContextValueFormatter_Plain(value) == Sprint(value)

ContextValueFormatter(value) ==
    IF value.t = "string" /\ value.s = <<>>
    THEN <<"<", "e", "m", "p", "t", "y", ">">>
    ELSE Sprint(value)

(* Push: the Karma it returns for a parent and the slice a that the     *)
(* append loop left.                                                       *)
pushed(parent, a) ==
    [arrays |-> a.arrays, karma |-> Karma(parent.Message, a.slice, nil)]

(* newReasons := parent.GetReasons() (g), then the append loop. *)
appendTo(g, reasons) == appendAll(g.arrays, g.slice, reasons)

(* Push, parent being reason or the Karma made of its text. *)
pushOnto(arrs, parent, reasons) ==
    pushed(parent, appendTo(GetReasons(arrs, parent), reasons))

(* Push *)
Push(arrs, reason, reasons) ==
    pushOnto(arrs,
             IF reason.t = "Karma" THEN reason ELSE Karma(Sprint(reason), NilReason, nil),
             reasons)

(* The Walk callback of Karma.String, once per context pair:               *)
(* karma = Push(karma, Push(name + ": " + ContextValueFormatter(value)))   *)
pushOuter(inner, karma) == Push(inner.arrays, karma, <<inner.karma>>)

pushLine(arrs, karma, kv) ==
    pushOuter(Push(arrs, String_(kv.Key \o <<":", " ">> \o ContextValueFormatter(kv.Value)),
                   <<>>),
              karma)

RECURSIVE pushContext(_, _, _)
pushRest(outer, kvs) == pushContext(outer.arrays, outer.karma, kvs)

pushContext(arrs, karma, kvs) ==
    IF kvs = <<>> THEN [arrays |-> arrs, karma |-> karma]
    ELSE pushRest(pushLine(arrs, karma, kvs[1]), Tail(kvs))

(* The value getBranchIndentation leaves in branchIndentation. *)
refreshIndentation_Stale(cache) == cache

refreshIndentation(cache) ==
    IF Len(cache) # BranchIndent THEN Spaces(BranchIndent) ELSE cache

(* getBranchIndentation *)
getBranchIndentation(st) ==
    LET fresh == refreshIndentation(st.indentation)
    IN  [text |-> fresh, st |-> [st EXCEPT !.indentation = fresh]]

(* The prolongate flag of formatReasons: some reason is Hierarchical and   *)
(* its GetReasons is not empty.                                            *)
prolongateOf_NotLast(arrs, reasons) ==
    \E i \in 1..(Len(reasons) - 1) :
        reasons[i].t = "Karma" /\ Len(Reasons(arrs, reasons[i])) > 0

prolongateOf(arrs, reasons) ==
    \E i \in 1..Len(reasons) :
        reasons[i].t = "Karma" /\ Len(Reasons(arrs, reasons[i])) > 0

RECURSIVE String(_, _)
RECURSIVE stringReason(_, _)
RECURSIVE formatLoop(_, _, _, _, _)

RECURSIVE formatNext(_, _, _, _, _)

(* The range loop of formatReasons from index on; message is the buffer. *)
formatLoop(st, reasons, prolongate, message, index) ==
    IF index > reasons.len THEN [text |-> message, st |-> st]
    ELSE formatNext(reasons, prolongate, message, index,
                    stringReason(st, Elems(st.arrays, reasons)[index]))

formatNext_BareChainer(reasons, prolongate, message, index, r) ==
    LET last == (index = reasons.len)
        splitter == IF last THEN BranchDelimiter ELSE BranchSplitter
        indentation == IF last THEN Spaces(Len(BranchChainer)) ELSE BranchChainer
        prolongator == <<NL>> \o TrimRightSpace(BranchChainer)
    IN  formatLoop(r.st, reasons, prolongate,
                   message
                   \o (IF message # <<>> THEN <<NL>> \o splitter ELSE <<>>)
                   \o ReplaceNL(r.text, indentation)
                   \o (IF prolongate /\ ~last THEN prolongator ELSE <<>>),
                   index + 1)

(* One pass of the loop, r being what stringReason(reason) returned. *)
formatNext(reasons, prolongate, message, index, r) ==
    LET last == (index = reasons.len)
        chainerLength == Len(BranchChainer)
        splitter == IF last THEN BranchDelimiter ELSE BranchSplitter
        indentation ==
            IF last
            THEN Spaces(IF chainerLength < BranchIndent THEN BranchIndent
                        ELSE chainerLength)
            ELSE BranchChainer
                 \o (IF BranchIndent >= chainerLength
                     THEN Spaces(BranchIndent - chainerLength) ELSE <<>>)
        prolongator == <<NL>> \o TrimRightSpace(BranchChainer)
    IN  formatLoop(r.st, reasons, prolongate,
                   message
                   \o (IF message # <<>> THEN <<NL>> \o splitter ELSE <<>>)
                   \o ReplaceNL(r.text, indentation)
                   \o (IF prolongate /\ ~last THEN prolongator ELSE <<>>),
                   index + 1)

(* formatReasons *)
formatReasons(st, karma, reasons) ==
    formatLoop(st, reasons, prolongateOf(st.arrays, Elems(st.arrays, reasons)),
               karma.Message, 1)

(* stringReason *)
stringReason(st, reason) ==
    IF reason.t = "Karma" THEN String(st, reason)
    ELSE [text |-> Sprint(reason), st |-> st]

(* Karma.String, default case: Message, a newline, the delimiter and the   *)
(* reason's text (r) indented by getBranchIndentation() (i).               *)
stringIndented(karma, r, i) ==
    [text |-> karma.Message \o <<NL>> \o BranchDelimiter \o ReplaceNL(r.text, i.text),
     st |-> i.st]

stringDefault(karma, r) == stringIndented(karma, r, getBranchIndentation(r.st))

(* Karma.String after the Walk: p holds the karma the callback left. *)
stringPushed(st, p) ==
    IF p.karma.Reason.t = "nil"
    THEN [text |-> p.karma.Message, st |-> [st EXCEPT !.arrays = p.arrays]]
    ELSE IF p.karma.Reason.t = "slice"
    THEN formatReasons([st EXCEPT !.arrays = p.arrays], p.karma, p.karma.Reason)
    ELSE stringDefault(p.karma,
                       stringReason([st EXCEPT !.arrays = p.arrays], p.karma.Reason))

(* Karma.String (and Karma.Error) *)
String(st, karma) ==
    stringPushed(st, pushContext(st.arrays, karma, Walk(heap, karma.Context)))

-----------------------------------------------------------------------------
(* Flattening.  GetMessage and the callback of Flatten render through      *)
(* Karma.Error, so they thread st like String does; fs holds st, the two   *)
(* slices Flatten collects, messages and keyvalues, and visited, the       *)
(* reasons Descend has handed to the callback so far.                      *)

(* fmt.Sprintf("%s", reason) *)
RECURSIVE Sprintf_s(_, _)
RECURSIVE sprintfElems(_, _, _, _)
sprintfElems(st, slice, index, text) ==
    IF index > slice.len THEN [text |-> text \o <<"]">>, st |-> st]
    ELSE LET r == Sprintf_s(st, Elems(st.arrays, slice)[index])
         IN  sprintfElems(r.st, slice, index + 1,
                          text \o (IF index > 1 THEN <<" ">> ELSE <<>>) \o r.text)

Sprintf_s(st, reason) ==
    IF reason.t = "Karma" THEN String(st, reason)
    ELSE IF reason.t = "slice" THEN sprintfElems(st, reason, 1, <<"[">>)
    ELSE IF reason.t = "nil"
         THEN [text |-> <<"%", "!", "s", "(", "<", "n", "i", "l", ">", ")">>, st |-> st]
    ELSE [text |-> Sprint(reason), st |-> st]

(* Karma.GetMessage *)
GetMessage(st, karma) ==
    IF karma.Message = <<>> THEN Sprintf_s(st, karma.Reason)
    ELSE [text |-> karma.Message, st |-> st]

(* The callback Flatten hands to Descend; g is what GetMessage returned. *)
collect(fs, reason, g) ==
    [st |-> g.st,
     messages |-> Append(fs.messages, g.text),
     keyvalues |-> fs.keyvalues \o GetKeyValuePairs(heap, reason.Context),
     visited |-> Append(fs.visited, reason)]

callback(fs, reason) ==
    IF reason.t = "Karma" THEN collect(fs, reason, GetMessage(fs.st, reason))
    ELSE [fs EXCEPT !.messages = Append(@, Sprint(reason)),
                    !.visited = Append(@, reason)]

(* Karma.Descend with the callback of Flatten: nothing for an empty        *)
(* Message; else every reason in order, a Karma followed by its own        *)
(* Descend.                                                                *)
RECURSIVE Descend(_, _)
RECURSIVE descendLoop(_, _, _)

(* After callback(reason) returned c. *)
descendNext(c, reason, reasons, index) ==
    descendLoop(IF reason.t = "Karma" THEN Descend(c, reason) ELSE c, reasons, index + 1)

descendLoop(fs, reasons, index) ==
    IF index > reasons.len THEN fs
    ELSE descendNext(callback(fs, Elems(fs.st.arrays, reasons)[index]),
                     Elems(fs.st.arrays, reasons)[index], reasons, index)

descendFrom(fs, g) == descendLoop([fs EXCEPT !.st.arrays = g.arrays], g.slice, 1)

Descend_EnterTrivial(fs, karma) == descendFrom(fs, GetReasons(fs.st.arrays, karma))

Descend(fs, karma) ==
    IF karma.Message = <<>> THEN fs
    ELSE descendFrom(fs, GetReasons(fs.st.arrays, karma))

(* fmt.Sprintf("%s=%v", keyvalues[i], keyvalues[i+1]) for every pair. *)
flattenedPairs(keyvalues) ==
    [i \in 1..(Len(keyvalues) \div 2) |->
        keyvalues[2 * i - 1].key \o <<"=">> \o Sprint(keyvalues[2 * i].value)]

(* Flatten, after Descend: the error made of messages and keyvalues. *)
joined(fs) ==
    [err |-> Error_(Join(fs.messages, <<":", " ">>)
                    \o (IF Len(fs.keyvalues) > 0
                        THEN <<" ", "|", " ">> \o Join(flattenedPairs(fs.keyvalues), <<" ">>)
                        ELSE <<>>)),
     st |-> fs.st,
     visited |-> fs.visited]

(* Flatten, g being what err.GetMessage() returned. *)
flattenFrom(err, g) ==
    joined(Descend([st |-> g.st, messages |-> <<g.text>>,
                    keyvalues |-> GetKeyValuePairs(heap, err.Context),
                    visited |-> <<>>], err))

(* Flatten *)
Flatten(st, err) ==
    IF err.t # "Karma" THEN [err |-> err, st |-> st, visited |-> <<>>]
    ELSE flattenFrom(err, GetMessage(st, err))

-----------------------------------------------------------------------------
(* Searching a chain: Contains and Find.  Both render through fmt.Sprint   *)
(* or read the reasons through GetReasons, so they thread st like String.  *)

(* fmt.Sprint(reason): the text of %s but for nil, which prints <nil>. *)
fmt_Sprint(st, reason) ==
    IF reason.t = "nil" THEN [text |-> Sprint(reason), st |-> st]
    ELSE Sprintf_s(st, reason)

(* contains: the loop over karma.GetReasons(); a Karma is searched, never  *)
(* compared; anything else is compared by its fmt.Sprint text.             *)
RECURSIVE contains(_, _, _)
RECURSIVE containsLoop(_, _, _, _, _)
containsLoop(st, reasons, index, reason, reasonString) ==
    IF index > reasons.len THEN [found |-> FALSE, st |-> st]
    ELSE LET nested == Elems(st.arrays, reasons)[index]
             s == fmt_Sprint(st, nested)
             c == IF nested.t = "Karma" THEN contains(st, nested, reason)
                  ELSE [found |-> s.text = reasonString, st |-> s.st]
         IN  IF c.found THEN c
             ELSE containsLoop(c.st, reasons, index + 1, reason, reasonString)

contains(st, karma, reason) ==
    LET r == fmt_Sprint(st, reason)
        g == GetReasons(r.st.arrays, karma)
    IN  containsLoop([r.st EXCEPT !.arrays = g.arrays], g.slice, 1, reason, r.text)

(* Contains *)
Contains(st, chain, branch) ==
    IF chain.t = "Karma" THEN contains(st, chain, branch)
    ELSE LET a == stringReason(st, chain)
             b == stringReason(a.st, branch)
         IN  [found |-> a.text = b.text, st |-> b.st]

(* find: the loop over karma.GetReasons(); typed is the slot Find was      *)
(* given, [type, addressable, value].  A Karma is searched and the loop    *)
(* goes on when nothing was found in it; the first reason that is no Karma *)
(* ends the loop with the result of its type test.                         *)
RECURSIVE find(_, _, _)
RECURSIVE findLoop(_, _, _, _)
findLoop(arrs, reasons, index, typed) ==
    IF index > reasons.len THEN [found |-> FALSE, typed |-> typed, arrays |-> arrs]
    ELSE LET nested == Elems(arrs, reasons)[index]
             f == find(arrs, nested, typed)
             same == nested.t = typed.type
         IN  IF nested.t = "Karma"
             THEN IF f.found THEN f ELSE findLoop(f.arrays, reasons, index + 1, typed)
             ELSE [found |-> same,
                   typed |-> IF same /\ typed.addressable
                             THEN [typed EXCEPT !.value = nested] ELSE typed,
                   arrays |-> arrs]

find(arrs, karma, typed) ==
    LET g == GetReasons(arrs, karma)
    IN  findLoop(g.arrays, g.slice, 1, typed)

(* Find *)
Find(arrs, err, typed) ==
    IF err.t = "Karma" THEN find(arrs, err, typed)
    ELSE [found |-> err.t = typed.type,
          typed |-> IF err.t = typed.type /\ typed.addressable
                    THEN [typed EXCEPT !.value = err] ELSE typed,
          arrays |-> arrs]

-----------------------------------------------------------------------------
(* Encoding.  A JSON document is modelled as its value tree (what          *)
(* encoding/json writes and reads): null, a string, a number, an array, or *)
(* an object with its members in document order.  JNone is the empty       *)
(* json.RawMessage: an absent member, and as a document the empty text,    *)
(* which is no JSON and which json.Unmarshal rejects.                      *)

JNull == [j |-> "null"]
JString(s) == [j |-> "string", s |-> s]
JNumber(n) == [j |-> "number", n |-> n]
JArray(elems) == [j |-> "array", elems |-> elems]
JObject(members) == [j |-> "object", members |-> members]
JNone == [j |-> "none"]
Member(name, value) == [name |-> name, value |-> value]

(* What json.Unmarshal stores into an interface{}: a float64 for a number, *)
(* a []interface{} for an array, a map[string]interface{} for an object.   *)
Float64Value(n) == [t |-> "float64", n |-> n]
InterfaceSlice(elems) == [t |-> "[]interface{}", elems |-> elems]
InterfaceMap(members) == [t |-> "map", members |-> members]

(* json.Marshal of a context value (string or int). *)
marshalValue(value) ==
    CASE value.t = "string" -> JString(value.s)
      [] value.t = "int" -> JNumber(value.n)
      [] value.t = "float64" -> JNumber(value.n)
      [] OTHER -> JNull

(* json.Marshal(KeyValue{key, value}) *)
marshalKeyValue(kv) ==
    JObject(<<Member("key", JString(kv.Key)), Member("value", marshalValue(kv.Value))>>)

(* Context.MarshalJSON: the array of the pairs Walk visits. *)
Context_MarshalJSON(h, context) ==
    LET linear == Walk(h, context)
    IN  JArray([i \in 1..Len(linear) |-> marshalKeyValue(linear[i])])

(* The members json.Marshal writes for a jsonRepresentation: omitempty     *)
(* drops an empty RawMessage, an empty string and a nil pointer.           *)
marshalRepresentation(h, reason, message, context) ==
    (IF reason = JNone THEN <<>> ELSE <<Member("reason", reason)>>)
    \o (IF message = <<>> THEN <<>> ELSE <<Member("message", JString(message))>>)
    \o (IF context = nil THEN <<>>
        ELSE <<Member("context", Context_MarshalJSON(h, context))>>)

(* Karma.MarshalJSON.  The type switch: a Karma is a json.Marshaler, an    *)
(* errors.New error is an error, everything else (nil, string, []Reason)   *)
(* goes to json.Marshal, which writes null for nil, an array for a slice   *)
(* and {} for an errors.New error inside a slice.                          *)
RECURSIVE MarshalJSON(_, _, _)
RECURSIVE marshalElems(_, _, _)
marshalElem(arrs, h, reason) ==
    CASE reason.t = "Karma" -> MarshalJSON(arrs, h, reason)
      [] reason.t = "error" -> JObject(<<>>)
      [] reason.t = "string" -> JString(reason.s)
      [] reason.t = "slice" -> JArray(marshalElems(arrs, h, Elems(arrs, reason)))
      [] OTHER -> marshalValue(reason)

marshalElems(arrs, h, reasons) ==
    IF reasons = <<>> THEN <<>>
    ELSE <<marshalElem(arrs, h, Head(reasons))>> \o marshalElems(arrs, h, Tail(reasons))

marshalReason(arrs, h, reason) ==
    CASE reason.t = "Karma" -> MarshalJSON(arrs, h, reason)
      [] reason.t = "error" -> JString(reason.s)
      [] reason.t = "slice" /\ reason.arr = 0 -> JNull
      [] OTHER -> marshalElem(arrs, h, reason)

MarshalJSON(arrs, h, karma) ==
    JObject(marshalRepresentation(h, marshalReason(arrs, h, karma.Reason),
                                  karma.Message, karma.Context))

(* json.Unmarshal into an interface{}. *)
RECURSIVE unmarshalInterface(_)
unmarshalInterface(data) ==
    CASE data.j = "null" -> NilReason
      [] data.j = "string" -> String_(data.s)
      [] data.j = "number" -> Float64Value(data.n)
      [] data.j = "array" ->
            InterfaceSlice([i \in 1..Len(data.elems) |-> unmarshalInterface(data.elems[i])])
      [] data.j = "object" ->
            InterfaceMap([i \in 1..Len(data.members) |->
                Member(data.members[i].name, unmarshalInterface(data.members[i].value))])

(* The value of the last member called name, JNone when there is none. *)
RECURSIVE member(_, _)
member(members, name) ==
    IF members = <<>> THEN JNone
    ELSE IF members[Len(members)].name = name THEN members[Len(members)].value
    ELSE member(SubSeq(members, 1, Len(members) - 1), name)

(* json.Unmarshal(data, &container) of Context.UnmarshalJSON, container a  *)
(* []KeyValue: an array whose elements are objects (or null) with a string *)
(* key; null gives the nil slice.  ok is FALSE where json.Unmarshal        *)
(* returns an error.                                                       *)
unmarshalKeyValue(item) ==
    IF item.j = "null" THEN [ok |-> TRUE, kv |-> [Key |-> <<>>, Value |-> NilReason]]
    ELSE IF item.j # "object" THEN [ok |-> FALSE]
    ELSE IF member(item.members, "key").j \notin {"string", "null", "none"}
    THEN [ok |-> FALSE]
    ELSE [ok |-> TRUE,
          kv |-> [Key |-> IF member(item.members, "key").j = "string"
                          THEN member(item.members, "key").s ELSE <<>>,
                  Value |-> IF member(item.members, "value").j = "none" THEN NilReason
                            ELSE unmarshalInterface(member(item.members, "value"))]]

unmarshalKeyValues(data) ==
    IF data.j = "null" THEN [ok |-> TRUE, container |-> <<>>]
    ELSE IF data.j # "array" THEN [ok |-> FALSE]
    ELSE IF \E i \in 1..Len(data.elems) : ~unmarshalKeyValue(data.elems[i]).ok
    THEN [ok |-> FALSE]
    ELSE [ok |-> TRUE,
          container |-> [i \in 1..Len(data.elems) |-> unmarshalKeyValue(data.elems[i]).kv]]

(* The loop of Context.UnmarshalJSON: result = result.Describe(key, value) *)
RECURSIVE describeItems(_, _, _)
describeItems(h, result, container) ==
    IF container = <<>> THEN [heap |-> h, ptr |-> result]
    ELSE LET d == Context_Describe(h, result, container[1].Key, container[1].Value)
         IN  describeItems(d.heap, d.ptr, Tail(container))

(* *context = *result: the node json allocated for the field becomes a     *)
(* copy of the list's first node; a nil result is a nil dereference.       *)
assignContext(r) ==
    IF r.ptr = nil THEN [outcome |-> "panic", heap |-> r.heap, ptr |-> nil]
    ELSE [outcome |-> "ok", heap |-> copyNode(r.heap, r.ptr).heap,
          ptr |-> copyNode(r.heap, r.ptr).ptr]

(* Context.UnmarshalJSON *)
Context_UnmarshalJSON(h, data) ==
    IF ~unmarshalKeyValues(data).ok THEN [outcome |-> "error", heap |-> h, ptr |-> nil]
    ELSE assignContext(describeItems(h, nil, unmarshalKeyValues(data).container))

(* json.Unmarshal(data, &container), container a jsonRepresentation: null  *)
(* leaves it zero, an object fills the fields its members name (reason     *)
(* keeps the member's raw text, null included), anything else is an error. *)
(* A message of the wrong type is an error json reports after it has       *)
(* decoded the other members; c is what decoding the context gave (an      *)
(* absent or null context leaves the nil pointer, anything else goes to    *)
(* Context.UnmarshalJSON).                                                 *)
representation(data, c) ==
    [outcome |-> IF c.outcome # "ok" THEN c.outcome
                 ELSE IF member(data.members, "message").j \notin {"string", "null", "none"}
                 THEN "error" ELSE "ok",
     heap |-> c.heap,
     Reason |-> member(data.members, "reason"),
     Message |-> IF member(data.members, "message").j = "string"
                 THEN member(data.members, "message").s ELSE <<>>,
     Context |-> c.ptr]

unmarshalRepresentation(h, data) ==
    IF data.j = "null"
    THEN [outcome |-> "ok", heap |-> h, Reason |-> JNone, Message |-> <<>>,
          Context |-> nil]
    ELSE IF data.j # "object"
    THEN [outcome |-> "error", heap |-> h]
    ELSE IF member(data.members, "context").j \in {"none", "null"}
    THEN representation(data, [outcome |-> "ok", heap |-> h, ptr |-> nil])
    ELSE representation(data, Context_UnmarshalJSON(h, member(data.members, "context")))

(* Karma.UnmarshalJSON on the receiver karma: the result is the outcome,   *)
(* the heap and the receiver as the call leaves it.                        *)
RECURSIVE UnmarshalJSON(_, _, _)
unmarshalReason(karma, container, first) ==
    IF first.outcome = "panic" THEN [outcome |-> "panic", heap |-> first.heap, karma |-> karma]
    ELSE [outcome |-> "ok", heap |-> first.heap,
          karma |-> Karma(container.Message,
                          IF first.outcome = "ok" THEN first.karma
                          ELSE unmarshalInterface(container.Reason),
                          container.Context)]

unmarshalContainer(karma, container) ==
    IF container.outcome # "ok"
    THEN [outcome |-> container.outcome, heap |-> container.heap, karma |-> karma]
    ELSE IF container.Reason = JNone
    THEN [outcome |-> "ok", heap |-> container.heap,
          karma |-> Karma(container.Message, karma.Reason, container.Context)]
    ELSE unmarshalReason(karma, container,
             UnmarshalJSON(container.heap, Karma(<<>>, NilReason, nil), container.Reason))

UnmarshalJSON(h, karma, data) == unmarshalContainer(karma, unmarshalRepresentation(h, data))

-----------------------------------------------------------------------------
(* DescribeDeep.  A value is a struct [t |-> "struct", fields], its fields *)
(* [Name, value] in declaration order, a slice [t |-> "[]", elems], or a   *)
(* leaf: a string, an int or a map.  A field is exported when its name     *)
(* starts with an upper-case letter.                                       *)

(* joinPrefixKey *)
joinPrefixKey(prefix, key) ==
    IF key = <<>> THEN prefix
    ELSE IF Head(key) = "[" THEN prefix \o key
    ELSE prefix \o <<".">> \o key

(* describeDeep on the list whose first node is context (ctx); the result  *)
(* is the heap.  describeEach is the loop of the struct case (fields that  *)
(* cannot be read through the interface are skipped) and of the slice      *)
(* case.  The default case is *ctx = *ctx.Describe(prefixKey,              *)
(* fmt.Sprint(obj)).                                                       *)
RECURSIVE describeDeep(_, _, _, _, _)
RECURSIVE describeEach(_, _, _, _, _)
describeEach(h, context, resource, prefixKey, index) ==
    IF resource.t = "struct"
    THEN IF index >= Len(resource.fields) THEN h
         ELSE describeEach(
                  IF Head(resource.fields[index + 1].Name) \in {"B", "I", "M", "Q", "S"}
                  THEN describeDeep(h, context, resource.fields[index + 1].value, prefixKey,
                                    resource.fields[index + 1].Name)
                  ELSE h,
                  context, resource, prefixKey, index + 1)
    ELSE IF index >= Len(resource.elems) THEN h
         ELSE describeEach(
                  describeDeep(h, context, resource.elems[index + 1], prefixKey,
                               <<"[">> \o Itoa(index) \o <<"]">>),
                  context, resource, prefixKey, index + 1)

describeDeep(h, context, obj, prefix, key) ==
    IF obj.t \in {"struct", "[]"}
    THEN describeEach(h, context, obj, joinPrefixKey(prefix, key), 0)
    ELSE LET d == Context_Describe(h, context, joinPrefixKey(prefix, key),
                                   StringValue(Sprint(obj)))
         IN  [d.heap EXCEPT ![context] = d.heap[d.ptr]]

(* DescribeDeep: ctx := &Context{}, the walk, return ctx. *)
DescribeDeep(h, prefixKey, obj) ==
    [heap |-> describeDeep(Append(h, Context(<<>>, NilReason, nil)), Len(h) + 1, obj,
                           prefixKey, <<>>),
     ptr |-> Len(h) + 1]

-----------------------------------------------------------------------------
(* Persistence runs: a caller keeps every list it has built and appends to *)
(* any of them, in any order.                                              *)

InitConfig ==
    /\ BranchDelimiter = <<"L", "-", " ">>
    /\ BranchChainer = <<"|", " ">>
    /\ BranchSplitter = <<"+", "-", " ">>
    /\ BranchIndent = 3
    /\ branchIndentation = <<" ", " ", " ">>

InitDescribe ==
    /\ InitConfig
    /\ heap = <<>>
    /\ arrays = <<>>
    /\ lists = <<>>
    /\ procs = <<>>
    /\ ctx = nil
    /\ node = NilReason
    /\ out = [call |-> "none"]

(* karma.Describe (from = 0) or Context.Describe on lists[from]. *)
DescribeList(from, key, value) ==
    /\ Len(lists) < MaxLists
    /\ LET base == IF from = 0 THEN nil ELSE lists[from].ptr
           want == IF from = 0 THEN <<>> ELSE lists[from].want
           r == Context_Describe(heap, base, key, value)
       IN  /\ heap' = r.heap
           /\ lists' = Append(lists, [ptr |-> r.ptr, from |-> from,
                                      want |-> want \o <<[key |-> key], [value |-> value]>>])
    /\ UNCHANGED <<arrays, BranchDelimiter, BranchChainer, BranchSplitter,
                   BranchIndent, branchIndentation, procs, ctx, node, out>>

NextDescribe ==
    \E from \in 0..Len(lists), key \in Keys, value \in ListValues :
        DescribeList(from, key, value)

SpecDescribe == InitDescribe /\ [][NextDescribe]_vars

(* C1: every list a caller holds yields, at every later time, the pairs of  *)
(* the list it was appended to, in their order, followed by its own pair:   *)
(* no Describe changes the pairs of its receiver or of any other list.      *)
C1_DescribeKeepsReceiver ==
    \A i \in 1..Len(lists) : GetKeyValuePairs(heap, lists[i].ptr) = lists[i].want

(* C1 witness: a base of two pairs with two different appends made to it,   *)
(* one after the other.                                                     *)
C1_Witness ==
    \E i, j, k \in 1..Len(lists) :
        /\ Len(lists[i].want) = 4
        /\ j < k /\ lists[j].from = i /\ lists[k].from = i
        /\ lists[j].want # lists[k].want
        /\ GetKeyValuePairs(heap, lists[j].ptr) = lists[j].want
        /\ GetKeyValuePairs(heap, lists[i].ptr) = lists[i].want

-----------------------------------------------------------------------------
(* Concurrent runs: two goroutines call Describe on one shared base list.   *)
(* Every step is one statement of Context.Describe and reads or writes at   *)
(* most one node.  Each goroutine records the nodes it allocated (owned)    *)
(* and the existing nodes it stored into (wrote).                           *)

Procs == {1, 2}

RECURSIVE buildList(_, _)
buildList(h, kvs) ==
    IF kvs = <<>> THEN [heap |-> h, ptr |-> nil]
    ELSE LET rest == buildList(h, Tail(kvs))
         IN  [heap |-> Append(rest.heap, Context(kvs[1].Key, kvs[1].Value, rest.ptr)),
              ptr |-> Len(rest.heap) + 1]

KeyValue(key, value) == [Key |-> key, Value |-> value]

KeyValues == {KeyValue(k, v) : k \in Keys, v \in ListValues}

SeqsUpTo(S, n) == UNION {[1..m -> S] : m \in 0..n}

InitConcurrent ==
    /\ InitConfig
    /\ arrays = <<>>
    /\ node = NilReason
    /\ out = [call |-> "none"]
    /\ \E kvs \in SeqsUpTo(KeyValues, MaxBase) :
          LET b == buildList(<<>>, kvs)
          IN  /\ heap = b.heap
              /\ ctx = b.ptr
              /\ lists = <<[ptr |-> b.ptr, from |-> 0, want |-> flattenPairs(kvs)]>>
    /\ \E k1 \in Keys, k2 \in Keys :
          procs = [p \in Procs |->
                      [pc |-> "L25", key |-> IF p = 1 THEN k1 ELSE k2,
                       value |-> IntValue(p), head |-> nil, pointer |-> nil,
                       copy |-> nil, ret |-> nil, owned |-> {}, wrote |-> {}]]

UnchangedByDescribe ==
    UNCHANGED <<arrays, BranchDelimiter, BranchChainer, BranchSplitter,
                BranchIndent, branchIndentation, lists, ctx, node, out>>

(* The nodes a result of copyNode or newNode added to the heap. *)
allocated(h, r) == IF Len(r.heap) > Len(h) THEN {r.ptr} ELSE {}

(* if context == nil { return &Context{...} } *)
DescribeNil(p) ==
    /\ procs[p].pc = "L25"
    /\ IF ctx = nil
       THEN LET r == newNode(heap, procs[p].key, procs[p].value)
            IN  /\ heap' = r.heap
                /\ procs' = [procs EXCEPT ![p].pc = "done", ![p].ret = r.ptr,
                                          ![p].owned = @ \cup allocated(heap, r)]
       ELSE /\ heap' = heap
            /\ procs' = [procs EXCEPT ![p].pc = "L34"]
    /\ UnchangedByDescribe

(* head := *context; pointer := &head *)
DescribeHead(p) ==
    /\ procs[p].pc = "L34"
    /\ LET r == copyNode(heap, ctx)
       IN  /\ heap' = r.heap
           /\ procs' = [procs EXCEPT ![p].pc = "L37", ![p].head = r.ptr,
                                     ![p].pointer = r.ptr,
                                     ![p].owned = @ \cup allocated(heap, r)]
    /\ UnchangedByDescribe

(* for pointer.Next != nil *)
DescribeTest(p) ==
    /\ procs[p].pc = "L37"
    /\ procs' = [procs EXCEPT
                    ![p].pc = IF heap[procs[p].pointer].Next # nil THEN "L38" ELSE "L44"]
    /\ UNCHANGED heap
    /\ UnchangedByDescribe

(* copy := *pointer.Next *)
DescribeCopy(p) ==
    /\ procs[p].pc = "L38"
    /\ LET r == copyNode(heap, heap[procs[p].pointer].Next)
       IN  /\ heap' = r.heap
           /\ procs' = [procs EXCEPT ![p].pc = "L39", ![p].copy = r.ptr,
                                     ![p].owned = @ \cup allocated(heap, r)]
    /\ UnchangedByDescribe

(* pointer.Next = &copy; pointer = pointer.Next *)
DescribeLink(p) ==
    /\ procs[p].pc = "L39"
    /\ heap' = [heap EXCEPT ![procs[p].pointer].Next = procs[p].copy]
    /\ procs' = [procs EXCEPT ![p].pc = "L37", ![p].pointer = procs[p].copy,
                              ![p].wrote = @ \cup {procs[p].pointer}]
    /\ UnchangedByDescribe

(* pointer.Next = &Context{...} *)
DescribeAppend(p) ==
    /\ procs[p].pc = "L44"
    /\ LET r == newNode(heap, procs[p].key, procs[p].value)
       IN  /\ heap' = [r.heap EXCEPT ![procs[p].pointer].Next = r.ptr]
           /\ procs' = [procs EXCEPT ![p].pc = "L51",
                                     ![p].owned = @ \cup allocated(heap, r),
                                     ![p].wrote = @ \cup {procs[p].pointer}]
    /\ UnchangedByDescribe

(* return &head *)
DescribeReturn(p) ==
    /\ procs[p].pc = "L51"
    /\ procs' = [procs EXCEPT ![p].pc = "done", ![p].ret = procs[p].head]
    /\ UNCHANGED heap
    /\ UnchangedByDescribe

NextConcurrent ==
    \E p \in Procs :
        \/ DescribeNil(p)
        \/ DescribeHead(p)
        \/ DescribeTest(p)
        \/ DescribeCopy(p)
        \/ DescribeLink(p)
        \/ DescribeAppend(p)
        \/ DescribeReturn(p)

SpecConcurrent == InitConcurrent /\ [][NextConcurrent]_vars

(* C2: under every interleaving of the statements of two Describe calls on  *)
(* one shared base, each call stores only into nodes it allocated itself    *)
(* and never into a node reachable from base, and each returns base's pairs *)
(* in order followed by its own pair.                                       *)
C2_ConcurrentDescribe ==
    \A p \in Procs :
        /\ procs[p].wrote \subseteq procs[p].owned
        /\ procs[p].wrote \cap nodesOf(heap, ctx) = {}
        /\ GetKeyValuePairs(heap, ctx) = lists[1].want
        /\ procs[p].pc = "done" =>
              GetKeyValuePairs(heap, procs[p].ret)
                  = lists[1].want \o <<[key |-> procs[p].key], [value |-> procs[p].value]>>

(* C2 witness: both calls have returned from a base of two or more pairs,   *)
(* and the second started copying before the first had finished.            *)
C2_Witness ==
    /\ Len(lists[1].want) >= 4
    /\ \A p \in Procs : procs[p].pc = "done" /\ procs[p].wrote # {}
    /\ procs[1].head < procs[2].head
    /\ \E a \in procs[1].owned : a > procs[2].head

-----------------------------------------------------------------------------
(* Rendering runs: a caller that holds context lists built by Describe    *)
(* builds a message with the package's constructors, renders it with      *)
(* String and flattens it with Flatten.                                    *)

Messages == {<<"m">>, <<>>}
Pairs == <<KeyValue(<<"a">>, StringValue(<<"v">>)), KeyValue(<<"b">>, StringValue(<<>>)),
          KeyValue(<<"c">>, IntValue(8)), KeyValue(<<"a">>, IntValue(10))>>
Opaque == {String_(<<"x">>), Error_(<<"e">>)}
Delimiters == {<<"L", "-", " ">>, <<"\\", "_", " ">>, <<"*", " ">>}

(* The number of Karma levels of a reason. *)
RECURSIVE depth(_, _)
RECURSIVE depthAll(_, _)
depthAll(arrs, reasons) ==
    IF reasons = <<>> THEN 0
    ELSE LET d == depth(arrs, Head(reasons))
             e == depthAll(arrs, Tail(reasons))
         IN  IF d > e THEN d ELSE e

depth(arrs, reason) ==
    IF reason.t = "Karma" THEN 1 + depthAll(arrs, Reasons(arrs, reason)) ELSE 0

(* The caller's context lists: karma.Describe(k1, v1), then Describe on   *)
(* the newest list with each further pair; every list is kept.             *)
RECURSIVE describeAll(_, _, _)
describeAll(h, held, kvs) ==
    IF kvs = <<>> THEN [heap |-> h, lists |-> held]
    ELSE LET from == Len(held)
             base == IF from = 0 THEN nil ELSE held[from].ptr
             want == IF from = 0 THEN <<>> ELSE held[from].want
             r == Context_Describe(h, base, kvs[1].Key, kvs[1].Value)
         IN  describeAll(r.heap,
                 Append(held, [ptr |-> r.ptr, from |-> from,
                               want |-> want \o <<[key |-> kvs[1].Key],
                                                  [value |-> kvs[1].Value]>>]),
                 Tail(kvs))

(* The lists a call may take as its receiver: nil and every list held. *)
Contexts == {nil} \cup {lists[i].ptr : i \in 1..Len(lists)}

Init ==
    /\ InitConfig
    /\ LET d == describeAll(<<>>, <<>>, SubSeq(Pairs, 1, MaxCtx))
       IN  heap = d.heap /\ lists = d.lists
    /\ arrays = <<>>
    /\ procs = <<>>
    /\ ctx = nil
    /\ node = NilReason
    /\ out = [call |-> "none"]

UnchangedConfig ==
    UNCHANGED <<BranchDelimiter, BranchChainer, BranchSplitter, BranchIndent,
                branchIndentation, lists, procs>>

(* node = karma.Format(reason, message) *)
DoFormat(reason, message) ==
    /\ depth(arrays, reason) < MaxDepth
    /\ node' = Format(reason, message)
    /\ out' = [call |-> "Format"]
    /\ UNCHANGED <<heap, arrays, ctx>>
    /\ UnchangedConfig

(* node = context.Format(reason, message) *)
DoContextFormat(context, reason, message) ==
    /\ depth(arrays, reason) < MaxDepth
    /\ node' = Context_Format(context, reason, message)
    /\ out' = [call |-> "Context.Format"]
    /\ UNCHANGED <<heap, arrays, ctx>>
    /\ UnchangedConfig

(* node = context.Reason(reason) *)
DoContextReason(context, reason) ==
    /\ depth(arrays, reason) < MaxDepth
    /\ node' = Context_Reason(context, reason)
    /\ out' = [call |-> "Context.Reason", reason |-> reason, context |-> context]
    /\ UNCHANGED <<heap, arrays, ctx>>
    /\ UnchangedConfig

(* node = karma.Push(reason, reasons...) *)
PushReturns(r) ==
    /\ Len(r.arrays) <= MaxArrays
    /\ depth(r.arrays, r.karma) <= MaxDepth
    /\ arrays' = r.arrays
    /\ node' = r.karma

DoPush(reason, reasons) ==
    /\ reason.t # "nil"
    /\ PushReturns(Push(arrays, reason, reasons))
    /\ out' = [call |-> "Push"]
    /\ UNCHANGED <<heap, ctx>>
    /\ UnchangedConfig

(* karma.BranchIndent = n *)
SetBranchIndent(n) ==
    /\ BranchIndent' = n
    /\ out' = [call |-> "set"]
    /\ UNCHANGED <<heap, arrays, ctx, node, BranchDelimiter, BranchChainer,
                   BranchSplitter, branchIndentation, lists, procs>>

(* karma.BranchDelimiter = d *)
SetBranchDelimiter(d) ==
    /\ BranchDelimiter' = d
    /\ out' = [call |-> "set"]
    /\ UNCHANGED <<heap, arrays, ctx, node, BranchIndent, BranchChainer,
                   BranchSplitter, branchIndentation, lists, procs>>

(* out = node.String(): the arrays String allocates are unreachable when   *)
(* it returns; what it stored into existing arrays stays.                  *)
StringReturns(r) ==
    /\ out' = [call |-> "String", of |-> node, text |-> r.text]
    /\ arrays' = SubSeq(r.st.arrays, 1, Len(arrays))
    /\ branchIndentation' = r.st.indentation

DoString ==
    /\ node.t = "Karma"
    /\ StringReturns(String([arrays |-> arrays, indentation |-> branchIndentation], node))
    /\ UNCHANGED <<heap, ctx, node, BranchDelimiter, BranchChainer, BranchSplitter,
                   BranchIndent, lists, procs>>

(* out = karma.Flatten(err); visited is what its Descend handed to the     *)
(* callback, in call order.                                                *)
FlattenReturns(err, r) ==
    /\ out' = [call |-> "Flatten", of |-> err, err |-> r.err, visited |-> r.visited]
    /\ arrays' = SubSeq(r.st.arrays, 1, Len(arrays))
    /\ branchIndentation' = r.st.indentation

DoFlatten(err) ==
    /\ FlattenReturns(err, Flatten([arrays |-> arrays, indentation |-> branchIndentation],
                                   err))
    /\ UNCHANGED <<heap, ctx, node, BranchDelimiter, BranchChainer, BranchSplitter,
                   BranchIndent, lists, procs>>

Next ==
    \/ \E reason \in Opaque \cup {NilReason, node}, message \in Messages :
          DoFormat(reason, message)
    \/ \E context \in Contexts, reason \in Opaque \cup {NilReason, node},
          message \in Messages :
          DoContextFormat(context, reason, message)
    \/ \E context \in Contexts, reason \in Opaque \cup {node} :
          DoContextReason(context, reason)
    \/ DoString
    \/ \E err \in {node, Error_(<<"e">>)} : DoFlatten(err)

Spec == Init /\ [][Next]_vars

(* Configuration runs: chains built by Format, rendered under a            *)
(* configuration that changes between the calls.                          *)
NextConfig ==
    \/ \E reason \in Opaque \cup {NilReason, node}, message \in Messages :
          DoFormat(reason, message)
    \/ \E n \in 0..MaxIndent : SetBranchIndent(n)
    \/ \E d \in Delimiters : SetBranchDelimiter(d)
    \/ DoString

SpecConfig == Init /\ [][NextConfig]_vars

(* Multi-branch runs: messages built by Format and Push. *)
NextPush ==
    \/ DoFormat(String_(<<"x">>), <<"m">>)
    \/ \E message \in Messages : DoFormat(node, message)
    \/ \E reason \in {String_(<<"x">>), node},
          reasons \in SeqsUpTo({Error_(<<"e">>), node, NilReason}, MaxPush) :
          DoPush(reason, reasons)
    \/ DoString

SpecPush == Init /\ [][NextPush]_vars

(* Descend runs: messages built by Format and Push, flattened. *)
NextDescend ==
    \/ \E message \in Messages : DoFormat(String_(<<"x">>), message)
    \/ \E message \in Messages : DoFormat(node, message)
    \/ \E reasons \in SeqsUpTo({Error_(<<"e">>), node}, MaxPush) : DoPush(node, reasons)
    \/ DoFlatten(node)

SpecDescend == Init /\ [][NextDescend]_vars

-----------------------------------------------------------------------------
(* Encoding runs: a caller builds a message with Format and Context.Format *)
(* over its context lists, encodes it with json.Marshal and decodes        *)
(* documents with json.Unmarshal into a fresh Karma (var actual Karma).    *)

JSONPairs == <<KeyValue(<<"a">>, StringValue(<<"v">>)), KeyValue(<<"n">>, IntValue(1000000)),
              KeyValue(<<"b">>, IntValue(8))>>

InitJSON ==
    /\ InitConfig
    /\ LET d == describeAll(<<>>, <<>>, SubSeq(JSONPairs, 1, MaxCtx))
       IN  heap = d.heap /\ lists = d.lists
    /\ arrays = <<>>
    /\ procs = <<>>
    /\ ctx = nil
    /\ node = NilReason
    /\ out = [call |-> "none"]

(* The documents of the package's tests and documents that differ from     *)
(* them in one member.                                                     *)
Documents ==
    { JNone, JNull, JString(<<"x">>), JObject(<<>>),
      JObject(<<Member("reason", JString(<<"x">>)), Member("message", JString(<<"m">>)),
                Member("context", JArray(<<marshalKeyValue(KeyValue(<<"a">>, StringValue(<<"v">>)))>>))>>),
      JObject(<<Member("reason",
                    JObject(<<Member("message", JString(<<"y">>)),
                              Member("context",
                                  JArray(<<marshalKeyValue(KeyValue(<<"b">>, StringValue(<<"w">>)))>>))>>)),
                Member("message", JString(<<"m">>)),
                Member("context", JArray(<<marshalKeyValue(KeyValue(<<"a">>, StringValue(<<"v">>))),
                                           marshalKeyValue(KeyValue(<<"b">>, IntValue(8)))>>))>>),
      JObject(<<Member("reason", JNull), Member("message", JString(<<"m">>))>>),
      JObject(<<Member("reason", JNumber(5)), Member("message", JString(<<"m">>))>>),
      JObject(<<Member("reason", JArray(<<JString(<<"x">>), JString(<<"y">>)>>)),
                Member("message", JString(<<"m">>))>>),
      JObject(<<Member("reason", JObject(<<Member("message", JNumber(5))>>)),
                Member("message", JString(<<"m">>))>>),
      JObject(<<Member("message", JNumber(5))>>),
      JObject(<<Member("message", JString(<<"m">>)), Member("context", JString(<<"x">>))>>),
      JObject(<<Member("message", JString(<<"m">>)), Member("context", JArray(<<>>))>>) }

(* The Context nodes a caller's lists hold (list i of describeAll takes i  *)
(* nodes); what an earlier call allocated is unreachable when the next one *)
(* starts.                                                                 *)
held(h) == SubSeq(h, 1, (Len(lists) * (Len(lists) + 1)) \div 2)

(* out = json.Marshal(node) *)
DoMarshal ==
    /\ node.t = "Karma"
    /\ out' = [call |-> "MarshalJSON", of |-> node, data |-> MarshalJSON(arrays, heap, node)]
    /\ UNCHANGED <<heap, arrays, ctx, node>>
    /\ UnchangedConfig

(* var actual Karma; err = json.Unmarshal(data, &actual) *)
UnmarshalReturns(data, r) ==
    /\ out' = [call |-> "UnmarshalJSON", data |-> data, outcome |-> r.outcome,
               actual |-> r.karma]
    /\ heap' = r.heap

DoUnmarshal(data) ==
    /\ UnmarshalReturns(data, UnmarshalJSON(held(heap), Karma(<<>>, NilReason, nil), data))
    /\ UNCHANGED <<arrays, ctx, node>>
    /\ UnchangedConfig

NextJSON ==
    \/ \E reason \in Opaque \cup {NilReason, node}, message \in Messages :
          DoFormat(reason, message)
    \/ \E context \in Contexts, reason \in Opaque \cup {NilReason, node},
          message \in Messages :
          DoContextFormat(context, reason, message)
    \/ DoMarshal
    \/ \E data \in Documents : DoUnmarshal(data)
    \/ node.t = "Karma" /\ DoUnmarshal(MarshalJSON(arrays, heap, node))

SpecJSON == InitJSON /\ [][NextJSON]_vars

-----------------------------------------------------------------------------
(* Search runs: messages built by Format and Push, searched with Contains  *)
(* and Find.                                                               *)

(* The reasons a caller looks for: a terminal of the runs, a string with   *)
(* an error's text, an error no chain holds, the node and its own reasons. *)
Branches_ ==
    {Error_(<<"e">>), String_(<<"e">>), Error_(<<"z">>), node}
        \cup (IF node.t = "Karma"
              THEN {Reasons(arrays, node)[i] : i \in 1..Len(Reasons(arrays, node))}
              ELSE {})

(* out = karma.Contains(chain, branch); the chain is the caller's node,    *)
(* or a native error before it has built one.                              *)
DoContains(chain, branch) ==
    /\ LET r == Contains([arrays |-> arrays, indentation |-> branchIndentation],
                         chain, branch)
       IN  /\ out' = [call |-> "Contains", chain |-> chain, branch |-> branch,
                      found |-> r.found]
           /\ arrays' = SubSeq(r.st.arrays, 1, Len(arrays))
           /\ branchIndentation' = r.st.indentation
    /\ UNCHANGED <<heap, ctx, node, BranchDelimiter, BranchChainer, BranchSplitter,
                   BranchIndent, lists, procs>>

(* var typed T; out = karma.Find(err, &typed), or Find(err, typed) when    *)
(* the slot is not addressable.                                            *)
DoFind(err, type, addressable) ==
    /\ LET r == Find(arrays, err, [type |-> type, addressable |-> addressable,
                                   value |-> NilReason])
       IN  out' = [call |-> "Find", err |-> err, type |-> type,
                   addressable |-> addressable, found |-> r.found,
                   typed |-> r.typed.value]
    /\ UNCHANGED <<heap, arrays, ctx, node>>
    /\ UnchangedConfig

NextSearch ==
    \/ \E reason \in Opaque \cup {node} : DoFormat(reason, <<"m">>)
    \/ \E reasons \in SeqsUpTo(Opaque, MaxPush) : DoPush(node, reasons)
    \/ \E chain \in {IF node.t = "Karma" THEN node ELSE Error_(<<"e">>)},
          branch \in Branches_ :
          DoContains(chain, branch)
    \/ \E err \in {IF node.t = "Karma" THEN node ELSE Error_(<<"e">>)},
          type \in {"string", "error"}, addressable \in BOOLEAN :
          DoFind(err, type, addressable)

SpecSearch == Init /\ [][NextSearch]_vars

-----------------------------------------------------------------------------
(* Shared-sequence runs: the caller holds p = karma.Push("m", "a", "b",    *)
(* "c"), whose reason sequence has three elements in a backing array of    *)
(* four cells (what the three appends of Push leave; the two smaller       *)
(* arrays they outgrew are garbage and not kept).  The caller pushes onto  *)
(* p, keeping p, and renders p with a context attached.                    *)

InitShared ==
    /\ InitConfig
    /\ LET d == describeAll(<<>>, <<>>, SubSeq(Pairs, 1, MaxCtx))
       IN  heap = d.heap /\ lists = d.lists
    /\ LET r == Push(<<>>, String_(<<"m">>),
                     <<String_(<<"a">>), String_(<<"b">>), String_(<<"c">>)>>)
       IN  /\ arrays = <<r.arrays[r.karma.Reason.arr]>>
           /\ node = [r.karma EXCEPT !.Reason.arr = 1]
    /\ procs = <<>>
    /\ ctx = nil
    /\ out = [call |-> "none"]

(* s = karma.Push(p, reasons...); out keeps s, and what p and the node of  *)
(* the last Push showed as their reasons before this call.                 *)
DoPushHeld(reasons) ==
    /\ LET r == Push(arrays, node, reasons)
       IN  /\ Len(r.arrays) <= MaxArrays
           /\ arrays' = r.arrays
           /\ out' = [call |-> "Push", parent |-> node, reasons |-> reasons,
                      karma |-> r.karma,
                      parentReasons |-> Reasons(arrays, node),
                      earlier |-> IF out.call = "Push"
                                  THEN <<[karma |-> out.karma,
                                          reasons |-> Reasons(arrays, out.karma)]>>
                                  ELSE <<>>]
    /\ UNCHANGED <<heap, ctx, node>>
    /\ UnchangedConfig

(* n := p; n.Context = context; n.String().  out keeps the node m of the   *)
(* last Push with the text m.String() gave before this call.               *)
DoStringOf(context) ==
    /\ LET st == [arrays |-> arrays, indentation |-> branchIndentation]
           n == Karma(node.Message, node.Reason, context)
           r == String(st, n)
       IN  /\ arrays' = SubSeq(r.st.arrays, 1, Len(arrays))
           /\ branchIndentation' = r.st.indentation
           /\ out' = [call |-> "String", of |-> n, text |-> r.text,
                      earlier |-> IF out.call = "Push"
                                  THEN <<[karma |-> out.karma,
                                          text |-> String(st, out.karma).text]>>
                                  ELSE <<>>]
    /\ UNCHANGED <<heap, ctx, node, BranchDelimiter, BranchChainer, BranchSplitter,
                   BranchIndent, lists, procs>>

NextShared ==
    \/ \E reasons \in SeqsUpTo({String_(<<"d">>), Error_(<<"e">>), NilReason}, MaxPush + 1) :
          DoPushHeld(reasons)
    \/ \E context \in Contexts : DoStringOf(context)

SpecShared == InitShared /\ [][NextShared]_vars

-----------------------------------------------------------------------------
(* DescribeDeep runs: the values of TestReflect and smaller ones made of   *)
(* the same parts.                                                         *)

Objects ==
    LET leaves == {StringValue(<<"a">>), IntValue(11),
                   InterfaceMap(<<Member("a", IntValue(1)), Member("b", IntValue(3))>>)}
        slices == {[t |-> "[]", elems |-> e] : e \in SeqsUpTo(leaves, MaxFields)}
        inner == {[t |-> "struct",
                   fields |-> <<[Name |-> <<"I">>, value |-> v],
                                [Name |-> <<"w">>, value |-> StringValue(<<"w">>)]>>] :
                     v \in leaves}
        parts == leaves \cup slices \cup inner
                    \cup {[t |-> "[]", elems |-> <<i, k>>] : i, k \in inner}
    IN  parts \cup {[t |-> "struct",
                     fields |-> <<[Name |-> <<"B">>, value |-> b],
                                  [Name |-> <<"S">>, value |-> c]>>] :
                        b \in inner, c \in slices}
              \cup {[t |-> "struct", fields |-> <<>>]}

(* out = karma.DescribeDeep(prefixKey, obj) *)
DoDescribeDeep(prefixKey, obj) ==
    /\ LET r == DescribeDeep(held(heap), prefixKey, obj)
       IN  /\ heap' = r.heap
           /\ out' = [call |-> "DescribeDeep", prefixKey |-> prefixKey, obj |-> obj,
                      context |-> r.ptr]
    /\ UNCHANGED <<arrays, ctx, node>>
    /\ UnchangedConfig

NextDeep ==
    \E prefixKey \in {<<"f">>, <<>>}, obj \in Objects : DoDescribeDeep(prefixKey, obj)

SpecDeep == Init /\ [][NextDeep]_vars

-----------------------------------------------------------------------------
(* Indentation runs: messages built by Context.Format over lists with a    *)
(* two-line value, rendered under a BranchIndent below, at and above the   *)
(* chainer's length.                                                       *)

InitIndent ==
    /\ InitConfig
    /\ LET d == describeAll(<<>>, <<>>,
                    SubSeq(<<KeyValue(<<"h">>, StringValue(<<"u", NL, "t">>)),
                             KeyValue(<<"a">>, StringValue(<<"v">>)),
                             KeyValue(<<"c">>, IntValue(8))>>, 1, MaxCtx))
       IN  heap = d.heap /\ lists = d.lists
    /\ arrays = <<>>
    /\ procs = <<>>
    /\ ctx = nil
    /\ node = NilReason
    /\ out = [call |-> "none"]

NextIndent ==
    \/ \E context \in Contexts, reason \in {String_(<<"x">>), node},
          message \in Messages :
          DoContextFormat(context, reason, message)
    \/ \E n \in {0, Len(BranchChainer), MaxIndent} : SetBranchIndent(n)
    \/ DoString

SpecIndent == InitIndent /\ [][NextIndent]_vars

-----------------------------------------------------------------------------
(* What the claims about rendering expect, written from their wording: a   *)
(* text is its lines joined by newlines.                                   *)

Opaques(reason) == reason.t \in {"string", "error"}

(* The child line of a context pair: 'key: formattedValue'. *)
PairLine(kv) ==
    kv.Key \o <<":", " ">> \o
    (IF kv.Value = StringValue(<<>>) THEN <<"<", "e", "m", "p", "t", "y", ">">>
     ELSE IF kv.Value.t = "string" THEN kv.Value.s ELSE Itoa(kv.Value.n))

PairLines(kvs) == [i \in 1..Len(kvs) |-> PairLine(kvs[i])]

(* message on the first line, then one line per child: the last child     *)
(* behind the delimiter, every other child behind the splitter.            *)
WithChildren(message, children) ==
    Join(<<message>> \o
         [i \in 1..Len(children) |->
             (IF i = Len(children) THEN BranchDelimiter ELSE BranchSplitter)
             \o children[i]],
         <<NL>>)

(* C3: Context.Reason(x) merges into x when x is a Karma (x's message and  *)
(* reason, x's pairs followed by the list's pairs) and wraps x otherwise   *)
(* (empty message, reason x, the list as context).                         *)
C3_ReasonMergesOrWraps ==
    out.call = "Context.Reason" =>
        IF out.reason.t = "Karma"
        THEN /\ node.Message = out.reason.Message
             /\ node.Reason = out.reason.Reason
             /\ Walk(heap, node.Context)
                   = Walk(heap, out.reason.Context) \o Walk(heap, out.context)
        ELSE /\ node.Message = <<>>
             /\ node.Reason = out.reason
             /\ Walk(heap, node.Context) = Walk(heap, out.context)

(* C4: c2.Format(c1.Reason(x), m), x opaque and m not empty, renders as m  *)
(* and then x, c1's pairs and c2's pairs as children of m at one depth.    *)
C4_TrivialNodeIsTransparent ==
    (/\ out.call = "String"
     /\ out.of.Message # <<>>
     /\ out.of.Reason.t = "Karma"
     /\ out.of.Reason.Message = <<>>
     /\ Opaques(out.of.Reason.Reason))
    => out.text = WithChildren(out.of.Message,
                      <<Sprint(out.of.Reason.Reason)>>
                      \o PairLines(Walk(heap, out.of.Reason.Context))
                      \o PairLines(Walk(heap, out.of.Context)))

(* C5: a node with a message, an absent or opaque reason and one or more   *)
(* context pairs renders as the message, then the reason (when present),   *)
(* then one 'key: value' line per pair in append order, the last line      *)
(* behind the delimiter and the others behind the splitter.                *)
C5_ContextPairsAreLastChildren ==
    (/\ out.call = "String"
     /\ out.of.Message # <<>>
     /\ (out.of.Reason.t = "nil" \/ Opaques(out.of.Reason))
     /\ out.of.Context # nil)
    => out.text = WithChildren(out.of.Message,
                      (IF out.of.Reason.t = "nil" THEN <<>>
                       ELSE <<Sprint(out.of.Reason)>>)
                      \o PairLines(Walk(heap, out.of.Context)))

(* C5 witness: a rendered node with an opaque reason and two pairs, one of *)
(* them with the empty string as its value.                                *)
C5_Witness ==
    /\ out.call = "String"
    /\ out.of.Message # <<>>
    /\ Opaques(out.of.Reason)
    /\ Len(Walk(heap, out.of.Context)) = 2
    /\ \E i \in 1..2 : Walk(heap, out.of.Context)[i].Value = StringValue(<<>>)
    /\ Len(out.text) > 12

(* C8: c.Reason(x), x opaque, renders as x's text on the first line and    *)
(* then one child line per pair of c; for the absent list, as x's text.    *)
C8_EmptyMessageRendersReason ==
    (/\ out.call = "String"
     /\ out.of.Message = <<>>
     /\ Opaques(out.of.Reason))
    => out.text = WithChildren(Sprint(out.of.Reason),
                               PairLines(Walk(heap, out.of.Context)))

(* The lines of a text. *)
RECURSIVE SplitLines(_, _)
SplitLines(text, line) ==
    IF text = <<>> THEN <<line>>
    ELSE IF Head(text) = NL THEN <<line>> \o SplitLines(Tail(text), <<>>)
    ELSE SplitLines(Tail(text), Append(line, Head(text)))

Lines(text) == SplitLines(text, <<>>)

(* A chain: Format nodes with non-empty messages and no context, ending in *)
(* an absent reason or an opaque terminal.                                 *)
RECURSIVE IsChain(_)
IsChain(k) ==
    /\ k.t = "Karma"
    /\ k.Message # <<>>
    /\ k.Context = nil
    /\ (k.Reason.t = "nil" \/ Opaques(k.Reason) \/ IsChain(k.Reason))

(* The elements of a chain, outermost first. *)
RECURSIVE ChainTexts(_)
ChainTexts(k) ==
    <<k.Message>> \o
    (IF k.Reason.t = "nil" THEN <<>>
     ELSE IF k.Reason.t = "Karma" THEN ChainTexts(k.Reason)
     ELSE <<Sprint(k.Reason)>>)

(* C6: a chain renders one element per line: the first message bare, and   *)
(* line i >= 1 as (i-1)*BranchIndent spaces, the BranchDelimiter and the   *)
(* element, with the BranchIndent and BranchDelimiter set at render time.  *)
C6_ChainUnderCurrentConfig ==
    (out.call = "String" /\ IsChain(out.of)) =>
        LET texts == ChainTexts(out.of)
        IN  Lines(out.text) =
                [i \in 1..Len(texts) |->
                    IF i = 1 THEN texts[1]
                    ELSE Spaces((i - 2) * BranchIndent) \o BranchDelimiter \o texts[i]]

(* C6 witness: a chain of three elements rendered after both BranchIndent  *)
(* and BranchDelimiter were changed, the indent to 0.                      *)
C6_Witness ==
    /\ out.call = "String"
    /\ IsChain(out.of)
    /\ Len(ChainTexts(out.of)) = 3
    /\ BranchIndent = 0
    /\ BranchDelimiter = <<"*", " ">>
    /\ Len(Lines(out.text)) = 3

(* A branch that is hierarchical and has nested reasons of its own. *)
HasNested(branch) == branch.t = "Karma" /\ Reasons(arrays, branch) # <<>>

(* The spacer lines of a rendered list: the lines that are the chainer     *)
(* with its trailing blanks trimmed.                                       *)
Spacers(text) ==
    Cardinality({i \in 1..Len(Lines(text)) : Lines(text)[i] = TrimRightSpace(BranchChainer)})

(* A String call that rendered its node as a multi-branch list: the node   *)
(* holds a sequence of reasons, or a context.                              *)
RenderedAsList(o) ==
    o.call = "String" /\ (o.of.Reason.t = "slice" \/ o.of.Context # nil)

(* The branches of a rendered list: the reasons, then the context pairs. *)
Branches(o) ==
    Reasons(arrays, o.of) \o
    [i \in 1..Len(Walk(heap, o.of.Context)) |->
        String_(PairLine(Walk(heap, o.of.Context)[i]))]

(* C7 as stated: a rendered list has a spacer line after every branch but  *)
(* the last exactly when a branch other than the last has nested reasons,  *)
(* and none otherwise.                                                     *)
C7_SpacerIffNonLastNested ==
    RenderedAsList(out) =>
        LET branches == Branches(out)
        IN  Spacers(out.text) =
                IF \E i \in 1..(Len(branches) - 1) : HasNested(branches[i])
                THEN Len(branches) - 1 ELSE 0

(* C7 amended: a rendered list has a spacer line after every branch but    *)
(* the last exactly when some branch, the last included, has nested        *)
(* reasons, and none otherwise.                                            *)
C7_SpacerIffAnyNested ==
    RenderedAsList(out) =>
        LET branches == Branches(out)
            lines == Lines(out.text)
        IN  /\ Spacers(out.text) =
                   IF \E i \in 1..Len(branches) : HasNested(branches[i])
                   THEN Len(branches) - 1 ELSE 0
            /\ lines[Len(lines)] # TrimRightSpace(BranchChainer)

(* C7 witness: a rendered list of two branches of which only the last has  *)
(* nested reasons, with its one spacer line.                               *)
C7_Witness ==
    /\ RenderedAsList(out)
    /\ LET branches == Branches(out)
       IN  /\ Len(branches) = 2
           /\ ~HasNested(branches[1])
           /\ HasNested(branches[2])
           /\ Spacers(out.text) = 1

-----------------------------------------------------------------------------
(* What the claims about Flatten expect, written from their wording.      *)

(* The messages of a reason and of all it holds, depth-first in sibling    *)
(* order: a node's own message, then its reasons; a terminal, its text.    *)
RECURSIVE MessageChain(_)
RECURSIVE MessageChainAll(_)
MessageChainAll(reasons) ==
    IF reasons = <<>> THEN <<>>
    ELSE MessageChain(Head(reasons)) \o MessageChainAll(Tail(reasons))

MessageChain(reason) ==
    IF reason.t = "Karma"
    THEN (IF reason.Message = <<>> THEN <<>> ELSE <<reason.Message>>)
         \o MessageChainAll(Reasons(arrays, reason))
    ELSE <<Sprint(reason)>>

(* The context pairs of a node and of every node it holds, each node's     *)
(* own pairs before those of its reasons.                                  *)
RECURSIVE ContextChain(_)
RECURSIVE ContextChainAll(_)
ContextChainAll(reasons) ==
    IF reasons = <<>> THEN <<>>
    ELSE ContextChain(Head(reasons)) \o ContextChainAll(Tail(reasons))

ContextChain(reason) ==
    IF reason.t = "Karma"
    THEN Walk(heap, reason.Context) \o ContextChainAll(Reasons(arrays, reason))
    ELSE <<>>

(* 'key=value' *)
PairEntry(kv) ==
    kv.Key \o <<"=">> \o (IF kv.Value.t = "string" THEN kv.Value.s ELSE Itoa(kv.Value.n))

Bar == <<" ", "|", " ">>

IsPrefix(p, text) == Len(p) <= Len(text) /\ SubSeq(text, 1, Len(p)) = p

IsSuffix(p, text) ==
    Len(p) <= Len(text) /\ SubSeq(text, Len(text) - Len(p) + 1, Len(text)) = p

HasInfix(text, p) ==
    \E i \in 1..(Len(text) - Len(p) + 1) : SubSeq(text, i, i + Len(p) - 1) = p

(* Every node of the tree has a message or a reason. *)
RECURSIVE NoEmptyNode(_)
NoEmptyNode(reason) ==
    reason.t = "Karma" =>
        /\ reason.Message # <<>> \/ reason.Reason.t # "nil"
        /\ \A i \in 1..Len(Reasons(arrays, reason)) :
              NoEmptyNode(Reasons(arrays, reason)[i])

(* No node of the tree has an empty message over a hierarchical reason. *)
RECURSIVE NoTrivialOverKarma(_)
NoTrivialOverKarma(reason) ==
    reason.t = "Karma" =>
        /\ reason.Message = <<>> => Opaques(reason.Reason)
        /\ \A i \in 1..Len(Reasons(arrays, reason)) :
              NoTrivialOverKarma(Reasons(arrays, reason)[i])

Flattened(o) == o.call = "Flatten" /\ o.of.t = "Karma" /\ NoEmptyNode(o.of)

(* C9: the text of Flatten(node) before ' | ' is the messages of the node  *)
(* and of every reason beneath it, depth-first in sibling order, joined by *)
(* ': ', each exactly once and with no context pair among them.            *)
C9_FlattenMessageChain ==
    Flattened(out) =>
        LET chain == Join(MessageChain(out.of), <<":", " ">>)
        IN  \/ out.err.s = chain
            \/ IsPrefix(chain \o Bar, out.err.s) /\ ~HasInfix(chain, Bar)

(* C10: Flatten(node) ends with ' | ' and the 'key=value' entries of every *)
(* context pair of the node and of every node beneath it, the node's own   *)
(* first and then depth-first, joined by blanks; there is no ' | ' exactly *)
(* when the tree has no context pair.                                      *)
C10_FlattenContextPairs ==
    Flattened(out) =>
        LET pairs == ContextChain(out.of)
            entries == [i \in 1..Len(pairs) |-> PairEntry(pairs[i])]
        IN  IF pairs = <<>> THEN ~HasInfix(out.err.s, Bar)
            ELSE IsSuffix(Bar \o Join(entries, <<" ">>), out.err.s)

(* On the trees that have no empty message over a hierarchical reason the  *)
(* whole text is the message chain and then the pairs.                     *)
FlattenOfPlainTrees ==
    (Flattened(out) /\ NoTrivialOverKarma(out.of)) =>
        LET pairs == ContextChain(out.of)
            entries == [i \in 1..Len(pairs) |-> PairEntry(pairs[i])]
        IN  out.err.s = Join(MessageChain(out.of), <<":", " ">>)
                \o (IF pairs = <<>> THEN <<>> ELSE Bar \o Join(entries, <<" ">>))

(* A flattened tree of three levels with pairs on two of them. *)
FlattenOfPlainTrees_Witness ==
    /\ Flattened(out) /\ NoTrivialOverKarma(out.of)
    /\ Len(MessageChain(out.of)) >= 3
    /\ out.of.Context # nil
    /\ out.of.Reason.t = "Karma" /\ out.of.Reason.Context # nil
    /\ out.of.Reason.Context # out.of.Context

-----------------------------------------------------------------------------
(* What the claims about encoding expect. *)

(* A node built from Format and Context.Format with absent, string or     *)
(* hierarchical reasons only.                                              *)
RECURSIVE NoNativeError(_)
NoNativeError(reason) ==
    /\ reason.t = "Karma"
    /\ \/ reason.Reason.t \in {"nil", "string"}
       \/ NoNativeError(reason.Reason)

(* The text String returns for karma in the current state. *)
Rendered(karma) == String([arrays |-> arrays, indentation |-> branchIndentation], karma).text

(* The last call decoded the encoding of the caller's node. *)
RoundTrip(o) ==
    /\ o.call = "UnmarshalJSON"
    /\ node.t = "Karma"
    /\ o.data = MarshalJSON(arrays, heap, node)

(* The node has a reason at every level but the innermost, which has a     *)
(* string; its context values print alike as int and as float64.           *)
RECURSIVE EveryLevelReasoned(_)
EveryLevelReasoned(reason) ==
    /\ reason.t = "Karma"
    /\ \A i \in 1..Len(Walk(heap, reason.Context)) :
          Walk(heap, reason.Context)[i].Value.t = "int"
              => Walk(heap, reason.Context)[i].Value.n < 1000000
    /\ \/ reason.Reason.t = "string"
       \/ EveryLevelReasoned(reason.Reason)

(* C11: decoding the encoding of a node built from Format and Describe     *)
(* with absent, string or hierarchical reasons succeeds and gives a node   *)
(* whose String() is the original's String(), a leaf with an absent reason *)
(* included.                                                               *)
C11_RenderRoundTrip ==
    (RoundTrip(out) /\ NoNativeError(node)) =>
        /\ out.outcome = "ok"
        /\ Rendered(out.actual) = Rendered(node)

(* On the nodes whose every level has a reason (a string at the bottom)    *)
(* and whose int context values are below 1000000 the round trip keeps     *)
(* the render.                                                             *)
RoundTripOfReasonedTrees ==
    (RoundTrip(out) /\ EveryLevelReasoned(node)) =>
        /\ out.outcome = "ok"
        /\ Rendered(out.actual) = Rendered(node)

(* A round trip of a two-level node with a context on the outer level. *)
RoundTripOfReasonedTrees_Witness ==
    /\ RoundTrip(out) /\ EveryLevelReasoned(node)
    /\ node.Reason.t = "Karma"
    /\ node.Context # nil

(* The document the wording of C12 describes for karma, with absent as the *)
(* reason slot of a node that has no reason (JNone: the member is          *)
(* omitted): the members are looked up by name, and there are no others.   *)
PairRecords(kvs) ==
    [i \in 1..Len(kvs) |->
        JObject(<<Member("key", JString(kvs[i].Key)),
                  Member("value", IF kvs[i].Value.t = "string"
                                  THEN JString(kvs[i].Value.s)
                                  ELSE JNumber(kvs[i].Value.n))>>)]

RECURSIVE HasShape(_, _, _)
HasShape(data, karma, absent) ==
    /\ data.j = "object"
    /\ \A i \in 1..Len(data.members) :
          data.members[i].name \in {"reason", "message", "context"}
    /\ \A i, k \in 1..Len(data.members) :
          data.members[i].name = data.members[k].name => i = k
    /\ IF karma.Message = <<>>
       THEN member(data.members, "message") \in {JNone, JString(<<>>)}
       ELSE member(data.members, "message") = JString(karma.Message)
    /\ IF karma.Context = nil
       THEN member(data.members, "context") = JNone
       ELSE member(data.members, "context")
                = JArray(PairRecords(Walk(heap, karma.Context)))
    /\ CASE karma.Reason.t = "Karma" ->
                HasShape(member(data.members, "reason"), karma.Reason, absent)
         [] karma.Reason.t \in {"error", "string"} ->
                member(data.members, "reason") = JString(karma.Reason.s)
         [] karma.Reason.t = "nil" -> member(data.members, "reason") = absent
         [] OTHER -> TRUE

(* C12: the document Karma.MarshalJSON produces has the node's message as  *)
(* 'message', the {key,value} records in list order as 'context' (omitted  *)
(* for an absent context), and as 'reason' the nested document of a        *)
(* hierarchical reason, the message text of a native error, the serialized *)
(* form of any other value, and no 'reason' when the reason is absent.     *)
C12_EncodedShape ==
    out.call = "MarshalJSON" => HasShape(out.data, out.of, JNone)

(* The same shape with null as the reason slot of a node without a reason. *)
EncodedShapeWithNull ==
    out.call = "MarshalJSON" => HasShape(out.data, out.of, JNull)

(* The document of TestCanMarshalToJSON: two levels, a context on each. *)
EncodedShapeWithNull_Witness ==
    /\ out.call = "MarshalJSON"
    /\ out.of.Context # nil
    /\ out.of.Reason.t = "Karma" /\ out.of.Reason.Context # nil
    /\ out.of.Reason.Reason.t = "string"

-----------------------------------------------------------------------------
(* What the claims about searching expect. *)

(* Every reason nested in a reason, at any depth, in depth-first order: a  *)
(* hierarchical reason, then what is nested in it.                         *)
RECURSIVE Nested(_)
RECURSIVE NestedAll(_)
NestedAll(reasons) ==
    IF reasons = <<>> THEN <<>>
    ELSE <<Head(reasons)>> \o Nested(Head(reasons)) \o NestedAll(Tail(reasons))

Nested(reason) ==
    IF reason.t = "Karma" THEN NestedAll(Reasons(arrays, reason)) ELSE <<>>

(* The string form of a reason. *)
StringForm(reason) == IF reason.t = "Karma" THEN Rendered(reason) ELSE Sprint(reason)

(* C13: Contains(chain, candidate) is true exactly when the string form of *)
(* the chain itself or of some reason nested in it at any depth, an        *)
(* intermediate hierarchical reason or a terminal one, is the string form  *)
(* of the candidate.                                                       *)
C13_ContainsAnyReason ==
    out.call = "Contains" =>
        (out.found <=>
            \/ StringForm(out.chain) = StringForm(out.branch)
            \/ \E i \in 1..Len(Nested(out.chain)) :
                  StringForm(Nested(out.chain)[i]) = StringForm(out.branch))

(* Contains of a hierarchical chain is true exactly when a terminal reason *)
(* has the candidate's string form; of any other chain, exactly when the   *)
(* two string forms are equal.                                             *)
ContainsTerminalReason ==
    out.call = "Contains" =>
        (out.found <=>
            IF out.chain.t = "Karma"
            THEN \E i \in 1..Len(Nested(out.chain)) :
                    /\ Nested(out.chain)[i].t # "Karma"
                    /\ StringForm(Nested(out.chain)[i]) = StringForm(out.branch)
            ELSE StringForm(out.chain) = StringForm(out.branch))

(* A terminal found under two levels, behind another reason of a sequence. *)
ContainsTerminalReason_Witness ==
    /\ out.call = "Contains" /\ out.found
    /\ out.chain.t = "Karma" /\ out.chain.Reason.t = "Karma"
    /\ out.chain.Reason.Reason.t = "slice"
    /\ out.branch = Error_(<<"e">>)

(* The reasons of a chain that are not hierarchical, in depth-first order. *)
Terminals(err) ==
    IF err.t = "Karma"
    THEN SelectSeq(Nested(err), LAMBDA r : r.t # "Karma")
    ELSE <<err>>

OfType(reasons, type) == SelectSeq(reasons, LAMBDA r : r.t = type)

(* C14: Find(chain, target) is true exactly when some non-hierarchical     *)
(* reason of the chain, at any depth and any position of a sequence, has   *)
(* the target's type; an addressable slot then holds the first such reason *)
(* in depth-first order, and a slot is unchanged when Find is false.       *)
C14_FindAnyPosition ==
    out.call = "Find" =>
        LET matches == OfType(Terminals(out.err), out.type)
        IN  /\ out.found <=> matches # <<>>
            /\ (out.found /\ out.addressable) => out.typed = matches[1]
            /\ ~out.found => out.typed = NilReason

(* On a chain without reason sequences Find is true exactly when the       *)
(* terminal reason has the target's type; the slot holds it when it is     *)
(* addressable and is unchanged otherwise.                                 *)
RECURSIVE NoSequence(_)
NoSequence(reason) ==
    reason.t = "Karma" => reason.Reason.t # "slice" /\ NoSequence(reason.Reason)

FindOnPlainChain ==
    (out.call = "Find" /\ NoSequence(out.err)) =>
        LET matches == OfType(Terminals(out.err), out.type)
        IN  /\ out.found <=> matches # <<>>
            /\ out.typed = IF out.found /\ out.addressable THEN matches[1] ELSE NilReason

(* A terminal of the target's type found at the end of a two-level chain. *)
FindOnPlainChain_Witness ==
    /\ out.call = "Find" /\ NoSequence(out.err)
    /\ out.err.t = "Karma" /\ out.err.Reason.t = "Karma"
    /\ out.found /\ out.addressable /\ out.typed = Error_(<<"e">>)

(* The calls the wording of C15 describes for Descend on karma: none for   *)
(* an empty message; else every reason in sequence order, a hierarchical   *)
(* one before what is beneath it.                                          *)
RECURSIVE Visits(_)
RECURSIVE VisitsAll(_)
VisitsAll(reasons) ==
    IF reasons = <<>> THEN <<>>
    ELSE <<Head(reasons)>> \o Visits(Head(reasons)) \o VisitsAll(Tail(reasons))

Visits(reason) ==
    IF reason.t = "Karma" /\ reason.Message # <<>>
    THEN VisitsAll(Reasons(arrays, reason))
    ELSE <<>>

(* C15: Descend on a node with a non-empty message calls the callback once *)
(* for every nested reason, hierarchical or terminal, in depth-first       *)
(* pre-order and sibling order; on a node with an empty message it makes   *)
(* no call, and it visits nothing below a nested node with an empty        *)
(* message.                                                                *)
C15_DescendPreOrder ==
    (out.call = "Flatten" /\ out.of.t = "Karma") => out.visited = Visits(out.of)

(* A Descend over a reason sequence that visits a nested node with an      *)
(* empty message and a reason of its own, and nothing beneath it.          *)
C15_Witness ==
    /\ out.call = "Flatten" /\ out.of.t = "Karma"
    /\ out.of.Reason.t = "slice"
    /\ Len(out.visited) >= 2
    /\ \E i \in 1..Len(out.visited) :
          /\ out.visited[i].t = "Karma"
          /\ out.visited[i].Message = <<>> /\ out.visited[i].Reason.t # "nil"

(* A Descend that visits a hierarchical reason and then the terminal       *)
(* beneath it.                                                             *)
C15_WitnessNested ==
    /\ out.call = "Flatten" /\ out.of.t = "Karma"
    /\ Len(out.visited) >= 3
    /\ out.visited[1].t = "Karma" /\ out.visited[2] \in Opaque

-----------------------------------------------------------------------------
(* What the claims about shared reason sequences expect. *)

(* C16: String() writes to no state reachable from any node: the node m of *)
(* an earlier Push(p, d) renders to the same text after n.String(), n      *)
(* being p with a context attached, as before it.                          *)
C16_StringIsReadOnly ==
    (out.call = "String" /\ out.earlier # <<>>) =>
        Rendered(out.earlier[1].karma) = out.earlier[1].text

(* String() of a node without a context leaves the text of every other     *)
(* node as it was.                                                         *)
StringWithoutContextIsReadOnly ==
    (out.call = "String" /\ out.earlier # <<>> /\ out.of.Context = nil) =>
        Rendered(out.earlier[1].karma) = out.earlier[1].text

(* p rendered after m = Push(p, d) took the free cell of p's array. *)
StringWithoutContextIsReadOnly_Witness ==
    /\ out.call = "String" /\ out.earlier # <<>> /\ out.of.Context = nil
    /\ out.earlier[1].karma.Reason = Slice(out.of.Reason.arr, out.of.Reason.len + 1)

(* The reasons of a sequence that are not nil. *)
NonNil(reasons) == SelectSeq(reasons, LAMBDA r : r.t # "nil")

(* C20: Push changes neither the reasons of its parent nor those of a node *)
(* an earlier Push returned: after s1 = Push(p, d) and s2 = Push(p, e),    *)
(* GetReasons(s1) is p's reasons and d, GetReasons(s2) is p's reasons and  *)
(* e, GetReasons(p) is unchanged; nil reasons are dropped.                 *)
C20_PushIsPersistent ==
    out.call = "Push" =>
        /\ Reasons(arrays, out.parent) = out.parentReasons
        /\ Reasons(arrays, out.karma) = out.parentReasons \o NonNil(out.reasons)
        /\ out.earlier # <<>> =>
              Reasons(arrays, out.earlier[1].karma) = out.earlier[1].reasons

(* Push leaves the reasons of its parent as they were and returns them     *)
(* followed by the reasons it was given, the nil ones dropped.             *)
PushKeepsParent ==
    out.call = "Push" =>
        /\ Reasons(arrays, out.parent) = out.parentReasons
        /\ Reasons(arrays, out.karma) = out.parentReasons \o NonNil(out.reasons)

(* A second Push onto p, with a nil reason among those given. *)
PushKeepsParent_Witness ==
    /\ out.call = "Push" /\ out.earlier # <<>>
    /\ Len(out.reasons) = 2 /\ Len(NonNil(out.reasons)) = 1
    /\ out.karma.Reason.arr = out.parent.Reason.arr

-----------------------------------------------------------------------------
(* What the claim about DescribeDeep expects. *)

(* One pair per leaf of obj: the fields of a struct in declaration order   *)
(* with the unexported ones skipped, the elements of a slice in index      *)
(* order, anything else a leaf whose key is the path and whose value is    *)
(* its default string form.                                                *)
RECURSIVE LeafPairs(_, _)
RECURSIVE LeafPairsOf(_, _, _)
LeafPairsOf(path, obj, index) ==
    IF obj.t = "struct"
    THEN IF index > Len(obj.fields) THEN <<>>
         ELSE (IF Head(obj.fields[index].Name) \in {"B", "I", "M", "Q", "S"}
               THEN LeafPairs(path \o <<".">> \o obj.fields[index].Name,
                              obj.fields[index].value)
               ELSE <<>>)
              \o LeafPairsOf(path, obj, index + 1)
    ELSE IF index > Len(obj.elems) THEN <<>>
         ELSE LeafPairs(path \o <<"[">> \o Itoa(index - 1) \o <<"]">>, obj.elems[index])
              \o LeafPairsOf(path, obj, index + 1)

LeafPairs(path, obj) ==
    IF obj.t \in {"struct", "[]"} THEN LeafPairsOf(path, obj, 1)
    ELSE <<[Key |-> path, Value |-> StringValue(Sprint(obj))]>>

(* C17: DescribeDeep(root, value) returns a list holding exactly one pair  *)
(* per leaf of value and no other pair, in visiting order, each with the   *)
(* path from root as its key and the leaf's default string form as its     *)
(* value.                                                                  *)
C17_OnePairPerLeaf ==
    out.call = "DescribeDeep" =>
        Walk(heap, out.context) = LeafPairs(out.prefixKey, out.obj)

(* The list DescribeDeep returns is the pair of the empty Context it starts *)
(* from (an empty key, a nil value) followed by one pair per leaf.         *)
DescribeDeepAfterFirstPair ==
    out.call = "DescribeDeep" =>
        Walk(heap, out.context)
            = <<[Key |-> <<>>, Value |-> NilReason]>> \o LeafPairs(out.prefixKey, out.obj)

(* A struct of a struct and a slice of two leaves, as in TestReflect. *)
DescribeDeepAfterFirstPair_Witness ==
    /\ out.call = "DescribeDeep"
    /\ out.obj.t = "struct" /\ Len(out.obj.fields) = 2
    /\ out.obj.fields[2].value.t = "[]" /\ Len(out.obj.fields[2].value.elems) = 2
    /\ Len(Walk(heap, out.context)) = 4

-----------------------------------------------------------------------------
(* What the claim about continuation lines expects. *)

(* The width of the continuation prefix. *)
IndentWidth == IF BranchIndent >= Len(BranchChainer) THEN BranchIndent ELSE Len(BranchChainer)

(* The prefix of the lines after the first of branch i of n branches. *)
ContinuationPrefix(i, n) ==
    IF i = n THEN Spaces(IndentWidth)
    ELSE BranchChainer \o Spaces(IndentWidth - Len(BranchChainer))

(* Where the text of branch i begins in the render: the number of line     *)
(* breaks before it, and whether nothing at all was written before it (an  *)
(* empty message followed by empty branches writes nothing, not even the   *)
(* break before the next branch; a spacer is always a line).               *)
RECURSIVE Before(_, _, _)
Before(message, branches, i) ==
    IF i = 1 THEN [breaks |-> IF message = <<>> THEN 0 ELSE 1, nothing |-> message = <<>>]
    ELSE LET b == Before(message, branches, i - 1)
             spacer == \E k \in 1..Len(branches) : HasNested(branches[k])
             nothing == b.nothing /\ StringForm(branches[i - 1]) = <<>> /\ ~spacer
         IN  [breaks |-> b.breaks + Len(Lines(StringForm(branches[i - 1]))) - 1
                         + (IF spacer THEN 1 ELSE 0) + (IF nothing THEN 0 ELSE 1),
              nothing |-> nothing]

(* C18: in a multi-branch render every line after the first of a branch's  *)
(* text is prefixed by the chainer padded with blanks to the indentation   *)
(* width when the branch is not the last, and by that many blanks when it  *)
(* is; the width is BranchIndent, or the chainer's length when BranchIndent *)
(* is smaller; this holds for every line of a multi-line branch, a         *)
(* multi-line context value included.                                      *)
C18_ContinuationIndent ==
    RenderedAsList(out) =>
        \A i \in 1..Len(Branches(out)) :
            \A k \in 2..Len(Lines(StringForm(Branches(out)[i]))) :
                Lines(out.text)[Before(out.of.Message, Branches(out), i).breaks + k]
                    = ContinuationPrefix(i, Len(Branches(out)))
                          \o Lines(StringForm(Branches(out)[i]))[k]

(* A render under BranchIndent = 0 of a nested node, a two-line context    *)
(* value that is not the last branch, and a last branch.                   *)
C18_Witness ==
    /\ RenderedAsList(out)
    /\ BranchIndent = 0
    /\ Len(Branches(out)) = 3
    /\ HasNested(Branches(out)[1])
    /\ Len(Lines(StringForm(Branches(out)[2]))) = 2

(* A render under the largest BranchIndent whose last branch is a two-line *)
(* context value.                                                          *)
C18_WitnessLast ==
    /\ RenderedAsList(out)
    /\ BranchIndent = MaxIndent
    /\ Len(Lines(StringForm(Branches(out)[Len(Branches(out))]))) = 2

-----------------------------------------------------------------------------
(* What the claim about decoding expects. *)

(* value is what the JSON value j says. *)
SameValue(value, j) ==
    \/ j.j = "string" /\ value.t = "string" /\ value.s = j.s
    \/ j.j = "number" /\ value.t \in {"int", "float64"} /\ value.n = j.n

(* j is a {key, value} record. *)
IsRecord(j) ==
    /\ j.j = "object"
    /\ member(j.members, "key").j = "string"
    /\ member(j.members, "value").j \in {"string", "number"}

(* data is a hierarchical document as far as its own level goes: an object *)
(* whose message, if any, is a string and whose context, if any, is an     *)
(* array of records (or null).                                             *)
IsHierarchical(data) ==
    /\ data.j = "object"
    /\ member(data.members, "message").j \in {"none", "string"}
    /\ \/ member(data.members, "context").j \in {"none", "null"}
       \/ /\ member(data.members, "context").j = "array"
          /\ \A i \in 1..Len(member(data.members, "context").elems) :
                IsRecord(member(data.members, "context").elems[i])

(* The JSON scalars; null is one of them when nullIsScalar. *)
IsScalar(j, nullIsScalar) ==
    j.j \in {"string", "number"} \/ (nullIsScalar /\ j.j = "null")

(* karma is what the wording says the decode of the hierarchical document  *)
(* data leaves: the document's message, its records in document order, no  *)
(* reason for an absent slot, an opaque reason for a scalar, a nested node *)
(* for a nested hierarchical document and an opaque reason otherwise.      *)
RECURSIVE Decoded(_, _, _)
Decoded(data, karma, nullIsScalar) ==
    /\ karma.Message = (IF member(data.members, "message").j = "string"
                        THEN member(data.members, "message").s ELSE <<>>)
    /\ IF member(data.members, "context").j = "array"
       THEN /\ Len(Walk(heap, karma.Context)) = Len(member(data.members, "context").elems)
            /\ \A i \in 1..Len(member(data.members, "context").elems) :
                  /\ Walk(heap, karma.Context)[i].Key
                         = member(member(data.members, "context").elems[i].members, "key").s
                  /\ SameValue(Walk(heap, karma.Context)[i].Value,
                               member(member(data.members, "context").elems[i].members, "value"))
       ELSE karma.Context = nil
    /\ CASE member(data.members, "reason").j = "none" -> karma.Reason = NilReason
         [] IsScalar(member(data.members, "reason"), nullIsScalar) ->
                /\ karma.Reason.t # "Karma"
                /\ member(data.members, "reason").j # "null"
                       => SameValue(karma.Reason, member(data.members, "reason"))
         [] member(data.members, "reason").j = "null" ->
                karma.Reason = Karma(<<>>, NilReason, nil)
         [] IsHierarchical(member(data.members, "reason")) ->
                /\ karma.Reason.t = "Karma"
                /\ Decoded(member(data.members, "reason"), karma.Reason, nullIsScalar)
         [] OTHER -> karma.Reason.t # "Karma"

(* The statement, with null counted among the scalars or not: a text that  *)
(* is no JSON gives an error, an error is returned only for a document     *)
(* that is not hierarchical (the second attempt has nothing it can fail    *)
(* on), and a decoded hierarchical document gives the node described.      *)
TwoAttemptDecode(nullIsScalar) ==
    out.call = "UnmarshalJSON" =>
        /\ out.data = JNone => out.outcome = "error"
        /\ out.outcome = "error" => ~IsHierarchical(out.data)
        /\ (out.outcome = "ok" /\ IsHierarchical(out.data))
              => Decoded(out.data, out.actual, nullIsScalar)

(* C19: Karma.UnmarshalJSON decodes the reason slot as a hierarchical      *)
(* document first and stores a nested node when that succeeds, and decodes *)
(* it as an opaque scalar only when that fails; it returns an error        *)
(* exactly for a malformed document; on success the message is the         *)
(* document's and the context holds its records in document order; a       *)
(* scalar reason decodes to an opaque reason, a nested document to a       *)
(* nested node with its own context.                                       *)
C19_TwoAttemptDecode == TwoAttemptDecode(TRUE)

(* What holds: the same with null, the one scalar the first attempt        *)
(* accepts, decoded to an empty nested node.                               *)
TwoAttemptDecodeNullNested == TwoAttemptDecode(FALSE)

(* A decode of a document with a nested document that has its own context. *)
TwoAttemptDecodeNullNested_Witness ==
    /\ out.call = "UnmarshalJSON"
    /\ out.outcome = "ok"
    /\ IsHierarchical(out.data)
    /\ out.actual.Reason.t = "Karma"
    /\ out.actual.Reason.Context # nil
    /\ out.actual.Context # nil

-----------------------------------------------------------------------------
(* What the claim about decoding without a crash expects. *)

(* The pairs are the same: equal keys, and values that are equal or the    *)
(* same number.                                                            *)
SamePairs(kvs, others) ==
    /\ Len(kvs) = Len(others)
    /\ \A i \in 1..Len(kvs) :
          /\ kvs[i].Key = others[i].Key
          /\ \/ kvs[i].Value = others[i].Value
             \/ /\ kvs[i].Value.t \in {"int", "float64"}
                /\ others[i].Value.t \in {"int", "float64"}
                /\ kvs[i].Value.n = others[i].Value.n

(* The decode of the encoding of a node with a non-empty context gives     *)
(* the pairs of that context in their order.                               *)
ContextRoundTrip ==
    (RoundTrip(out) /\ node.Context # nil) =>
        /\ out.outcome = "ok"
        /\ SamePairs(Walk(heap, out.actual.Context), Walk(heap, node.Context))

(* data, or a document nested in it as a reason, has an empty array as its *)
(* context.                                                                *)
RECURSIVE HasEmptyContext(_)
HasEmptyContext(data) ==
    /\ data.j = "object"
    /\ \/ member(data.members, "context") = JArray(<<>>)
       \/ HasEmptyContext(member(data.members, "reason"))

(* C21: decoding never crashes: for every well-formed document the decode  *)
(* returns an error or completes; a document whose context is an empty     *)
(* array decodes to a node with an absent context; decoding the encoding   *)
(* of a non-empty context list gives the same pairs in the same order.     *)
C21_DecodeNeverCrashes ==
    /\ out.call = "UnmarshalJSON" => out.outcome \in {"ok", "error"}
    /\ (out.call = "UnmarshalJSON" /\ IsHierarchical(out.data)
           /\ member(out.data.members, "context") = JArray(<<>>))
          => (out.outcome = "ok" /\ out.actual.Context = nil)
    /\ ContextRoundTrip

(* What holds: the decode crashes only on a document with an empty context *)
(* array, and the round trip of a non-empty context keeps its pairs.       *)
DecodeCrashesOnEmptyContextOnly ==
    /\ (out.call = "UnmarshalJSON" /\ out.outcome = "panic") => HasEmptyContext(out.data)
    /\ ContextRoundTrip

(* A round trip of a node whose context has two pairs. *)
DecodeCrashesOnEmptyContextOnly_Witness ==
    /\ RoundTrip(out) /\ out.outcome = "ok"
    /\ Len(Walk(heap, node.Context)) = 2
    /\ out.actual.Context # node.Context

====
